---- MODULE Spec2Model ----
(***************************************************************************)
(* Packing engine of the 3D printer calculator.                            *)
(*                                                                         *)
(*   Spec         calculateBatchArrangement (multi-item batch packer)      *)
(*   SpecPacking  calculatePrinterPacking   (single-bed grid packer)       *)
(*                                                                         *)
(* Lengths are integer millimetres, times are seconds.                     *)
(***************************************************************************)
EXTENDS Integers, Sequences, FiniteSets, TLC

\* ------------------------------------------------------------------------
\* Program constants
\* ------------------------------------------------------------------------
WALL_MARGIN == 10

OBJECT_SPACING == 15

\* PRINTERS table of the batch calculator.
PRINTERS ==
  ("400" :> [dimensions |-> [x |-> 390, y |-> 290, z |-> 200], layerTime |-> 45]) @@
  ("600" :> [dimensions |-> [x |-> 595, y |-> 600, z |-> 250], layerTime |-> 35])

\* Bed of the overflow scenario: availableWidth = availableDepth = 150 with
\* the default margin of 10.
ScenarioBed ==
  [dimensions |-> [x |-> 170, y |-> 170, z |-> 200], layerTime |-> 45]

\* Printer table the packer is run against: the program's two printers and
\* the scenario bed.
Beds == PRINTERS @@ ("scenario" :> ScenarioBed)

\* printer400 / printer600 of the single-bed packer.
printer400 == [width |-> 390, depth |-> 290, height |-> 200, layerTime |-> 45]

printer600 == [width |-> 595, depth |-> 600, height |-> 250, layerTime |-> 35]

\* ------------------------------------------------------------------------
\* Bounds of the model
\* ------------------------------------------------------------------------
MaxRows == 2

MaxQty == 2

\* Orientation switches per loaded model.
MaxSwitches == 3

\* Uploads to one row.
MaxUploads == 2

ScenarioQty == 10

\* ------------------------------------------------------------------------
\* Helpers
\* ------------------------------------------------------------------------
Max(a, b) == IF a >= b THEN a ELSE b

SetMin(S) == CHOOSE m \in S : \A n \in S : m <= n

RECURSIVE SumSeq(_)
SumSeq(s) == IF s = <<>> THEN 0 ELSE Head(s) + SumSeq(Tail(s))

RECURSIVE MaxSeq(_)
MaxSeq(s) == IF Len(s) = 1 THEN Head(s) ELSE Max(Head(s), MaxSeq(Tail(s)))

\* Math.ceil(h / 0.1): on the integer heights of the model (1..600) the
\* double-precision quotient h / 0.1 is exactly 10 * h.
LayerCount(h) == 10 * h

\* ------------------------------------------------------------------------
\* Inputs
\* ------------------------------------------------------------------------
\* Footprints and heights of the rows offered to each bed.  A row carries the
\* dimensions of its selected orientation, so they are sorted: flat rows have
\* width >= depth >= height, vertical rows width <= depth <= height.
RowDims ==
  ("scenario" :> { <<60, 100, 110>>, <<125, 20, 10>> }) @@
  ("400"      :> { <<340, 120, 50>>, <<300, 250, 61>>, <<365, 100, 50>> }) @@
  ("600"      :> { <<560, 270, 50>>, <<578, 100, 50>>, <<570, 300, 251>> })

RowSet(k) ==
  [width : {t[1] : t \in RowDims[k]}, depth : {t[2] : t \in RowDims[k]},
   height : {t[3] : t \in RowDims[k]}, quantity : 1..MaxQty]

Rows(k) ==
  {r \in RowSet(k) : <<r.width, r.depth, r.height>> \in RowDims[k]}

SeqsUpTo(S, n) == UNION {[1..m -> S] : m \in 1..n}

\* The row lists offered to bed k, and the overflow scenario on the scenario
\* bed: ScenarioQty items of 100 x 100 x 50.
ScenarioRows ==
  << [width |-> 100, depth |-> 100, height |-> 50, quantity |-> ScenarioQty] >>

\* Two rows for the scenario bed of which the first fits once per batch and
\* the second fits next to it once.
NextFitRows ==
  << [width |-> 100, depth |-> 100, height |-> 50, quantity |-> 2],
     [width |-> 125, depth |-> 20, height |-> 10, quantity |-> 2] >>

InputRows(k) ==
  SeqsUpTo(Rows(k), MaxRows)
    \cup (IF k = "scenario" THEN {ScenarioRows, NextFitRows} ELSE {})

\* ------------------------------------------------------------------------
\* State
\* ------------------------------------------------------------------------
VARIABLES
  selectedPrinter,  \* key of the printer the batch is computed for
  stlRows,          \* the input rows
  pc,               \* "start", "pack", "done" (batch packer); "idle" otherwise
  items,            \* expanded and sorted unit items
  idx,              \* index of the next item of the forEach loop
  batches,          \* closed batches
  currentBatch,     \* placed items of the open batch
  packed,
  unpacked,
  packedItems,
  totalPrintTime,
  result,           \* the returned object once pc = "done"
  lastStep,         \* the branch the last forEach iteration took
  packInput,        \* arguments of calculatePrinterPacking
  packResult,       \* its return value
  costInput,        \* arguments of calculateCostAndPacking
  costResult,       \* its return value
  costLog,          \* what it wrote to the console
  originalSize,     \* bounding box of the uploaded model
  orientationData,  \* the orientation data of the scene and the row
  requested,        \* the orientations requested so far
  orientedDims,     \* return value of updatePackingWithOrientation
  uploads,          \* the calls of handleSTLFileUpload, one record each
  row,              \* the row the files are uploaded to
  hasWorker,        \* whether window.Worker exists
  meshBuffer,       \* a buffer handed to both mesh computations
  workerReply,      \* the message the worker posts back for it
  mainThreadResult, \* what processSTLInMainThread settles with for it
  findInput,        \* arguments of findPositionForItem
  findResult        \* its return value

batchVars == <<selectedPrinter, stlRows, pc, items, idx, batches, currentBatch,
               packed, unpacked, packedItems, totalPrintTime, result, lastStep>>

packVars == <<packInput, packResult>>

costVars == <<costInput, costResult, costLog>>

orientVars == <<originalSize, orientationData, requested, orientedDims>>

stlVars == <<uploads, row, hasWorker>>

meshVars == <<meshBuffer, workerReply, mainThreadResult>>

findVars == <<findInput, findResult>>

vars == <<batchVars, packVars, costVars, orientVars, stlVars, meshVars,
          findVars>>

\* The variables an operation of one part leaves alone.
nonBatchVars ==
  <<packVars, costVars, orientVars, stlVars, meshVars, findVars>>

nonPackVars ==
  <<batchVars, costVars, orientVars, stlVars, meshVars, findVars>>

nonCostVars ==
  <<batchVars, packVars, orientVars, stlVars, meshVars, findVars>>

nonOrientVars ==
  <<batchVars, packVars, costVars, stlVars, meshVars, findVars>>

nonSTLVars ==
  <<batchVars, packVars, costVars, orientVars, meshVars, findVars>>

nonMeshVars ==
  <<batchVars, packVars, costVars, orientVars, stlVars, findVars>>

nonFindVars ==
  <<batchVars, packVars, costVars, orientVars, stlVars, meshVars>>

\* ------------------------------------------------------------------------
\* calculateBatchArrangement
\* ------------------------------------------------------------------------
availableWidth == Beds[selectedPrinter].dimensions.x - (2 * WALL_MARGIN)

availableDepth == Beds[selectedPrinter].dimensions.y - (2 * WALL_MARGIN)

availableHeight == Beds[selectedPrinter].dimensions.z

\* "Skip items that are too large for printer"
TooLarge(width, depth, height) ==
  width > availableWidth \/ depth > availableDepth \/ height > availableHeight

\* The unit items pushed for row r: one per unit of quantity.
ExpandRow(r) ==
  [i \in 1..stlRows[r].quantity |->
     [id |-> <<r, i - 1>>, width |-> stlRows[r].width,
      depth |-> stlRows[r].depth, height |-> stlRows[r].height]]

RECURSIVE CollectItems(_)
CollectItems(r) ==
  IF r > Len(stlRows) THEN <<>>
  ELSE (IF TooLarge(stlRows[r].width, stlRows[r].depth, stlRows[r].height)
          THEN <<>> ELSE ExpandRow(r)) \o CollectItems(r + 1)

\* items.sort((a, b) => b.height - a.height): stable, descending by height.
RECURSIVE InsertByHeight(_, _)
InsertByHeight(s, it) ==
  IF s = <<>> THEN <<it>>
  ELSE IF Head(s).height >= it.height
         THEN <<Head(s)>> \o InsertByHeight(Tail(s), it)
         ELSE <<it>> \o s

\* Mutant of SortByHeightDesc: the items keep the order of the rows.
SortByHeightDesc_Unsorted(s) == s

RECURSIVE SortByHeightDesc(_)
SortByHeightDesc(s) ==
  IF s = <<>> THEN <<>>
  ELSE InsertByHeight(SortByHeightDesc(SubSeq(s, 1, Len(s) - 1)), s[Len(s)])

\* Mutant of Overlaps: the spacing is left out of the test.
Overlaps_NoSpacing(x, y, width, depth, spacing, placedItem) ==
  ~ ( x + width <= placedItem.x
      \/ placedItem.x + placedItem.width <= x
      \/ y + depth <= placedItem.y
      \/ placedItem.y + placedItem.depth <= y )

\* The overlap test of findPositionForItem: the candidate at (x, y) is within
\* spacing of placedItem on both axes.
Overlaps(x, y, width, depth, spacing, placedItem) ==
  ~ ( x + width + spacing <= placedItem.x
      \/ placedItem.x + placedItem.width + spacing <= x
      \/ y + depth + spacing <= placedItem.y
      \/ placedItem.y + placedItem.depth + spacing <= y )

ValidPosition(batch, x, y, width, depth, spacing) ==
  \A i \in 1..Len(batch) : ~Overlaps(x, y, width, depth, spacing, batch[i])

\* Mutant of Candidates: the scan starts at the bed corner and runs to the
\* available width and depth.
Candidates_FromCorner(width, depth, maxWidth, maxDepth) ==
  (0..maxWidth) \X (0..maxDepth)

\* The candidates scanned: x outer, y inner, unit steps from WALL_MARGIN.
Candidates(width, depth, maxWidth, maxDepth) ==
  (WALL_MARGIN..(maxWidth - width)) \X (WALL_MARGIN..(maxDepth - depth))

NoFit == [found |-> FALSE, x |-> 0, y |-> 0, wastedSpace |-> 0]

\* Mutant of ExhaustiveFit: among the candidates of minimal x + y the last
\* one scanned is kept.
ExhaustiveFit_LastTie(batch, width, depth, maxWidth, maxDepth, spacing) ==
  LET valid == {p \in Candidates(width, depth, maxWidth, maxDepth) :
                  ValidPosition(batch, p[1], p[2], width, depth, spacing)}
  IN IF valid = {} THEN NoFit
     ELSE LET m  == SetMin({p[1] + p[2] : p \in valid})
              bx == SetMin({m - p[2] : p \in {q \in valid : q[1] + q[2] = m}})
              by == SetMin({p[2] : p \in {q \in valid : q[1] + q[2] = m}})
          IN [found |-> TRUE, x |-> m - by, y |-> by, wastedSpace |-> m]

\* The scan keeps the first candidate with a strictly smaller x + y, so it
\* ends with the valid candidate of minimal x + y that comes first in scan
\* order (smallest x).
ExhaustiveFit(batch, width, depth, maxWidth, maxDepth, spacing) ==
  LET valid == {p \in Candidates(width, depth, maxWidth, maxDepth) :
                  ValidPosition(batch, p[1], p[2], width, depth, spacing)}
  IN IF valid = {} THEN NoFit
     ELSE LET m  == SetMin({p[1] + p[2] : p \in valid})
              bx == SetMin({p[1] : p \in {q \in valid : q[1] + q[2] = m}})
          IN [found |-> TRUE, x |-> bx, y |-> m - bx, wastedSpace |-> m]

\* findPositionForItem: (WALL_MARGIN, WALL_MARGIN) is the first candidate
\* scanned and is returned at once when valid.
findPositionForItem(batch, width, depth, maxWidth, maxDepth, spacing) ==
  IF <<WALL_MARGIN, WALL_MARGIN>> \in Candidates(width, depth, maxWidth, maxDepth)
     /\ ValidPosition(batch, WALL_MARGIN, WALL_MARGIN, width, depth, spacing)
    THEN [found |-> TRUE, x |-> WALL_MARGIN, y |-> WALL_MARGIN,
          wastedSpace |-> WALL_MARGIN + WALL_MARGIN]
    ELSE ExhaustiveFit(batch, width, depth, maxWidth, maxDepth, spacing)

\* Mutant of UseRotated: a tie goes to the rotated fit.
UseRotated_TieRotates(regularFit, rotatedFit) ==
  IF regularFit.found /\ rotatedFit.found
    THEN ~(regularFit.wastedSpace < rotatedFit.wastedSpace)
    ELSE ~regularFit.found /\ rotatedFit.found

\* The choice between the two fits in placeItem.
UseRotated(regularFit, rotatedFit) ==
  IF regularFit.found /\ rotatedFit.found
    THEN ~(regularFit.wastedSpace <= rotatedFit.wastedSpace)
    ELSE ~regularFit.found /\ rotatedFit.found

\* Mutant of PlacedEntry: the item is put on top of a layer of its height.
PlacedEntry_Stacked(item, fit, rotated, currentHeight) ==
  [id |-> item.id, x |-> fit.x, y |-> fit.y, z |-> currentHeight + item.height,
   width  |-> IF rotated THEN item.depth ELSE item.width,
   depth  |-> IF rotated THEN item.width ELSE item.depth,
   height |-> item.height, rotated |-> rotated]

\* The entry placeItem pushes on the batch.
PlacedEntry(item, fit, rotated, currentHeight) ==
  [id |-> item.id, x |-> fit.x, y |-> fit.y, z |-> currentHeight,
   width  |-> IF rotated THEN item.depth ELSE item.width,
   depth  |-> IF rotated THEN item.width ELSE item.depth,
   height |-> item.height, rotated |-> rotated]

\* placeItem against the batch given: whether the item was placed, and the
\* batch afterwards.  currentHeight is 0 throughout.
placeItem(batch, item) ==
  LET regularFit == findPositionForItem(batch, item.width, item.depth,
                      availableWidth, availableDepth, OBJECT_SPACING)
      rotatedFit == findPositionForItem(batch, item.depth, item.width,
                      availableWidth, availableDepth, OBJECT_SPACING)
      rotated    == UseRotated(regularFit, rotatedFit)
      placed     == regularFit.found \/ rotatedFit.found
  IN [placed |-> placed,
      batch  |-> IF placed
                   THEN Append(batch, PlacedEntry(item,
                          IF rotated THEN rotatedFit ELSE regularFit, rotated, 0))
                   ELSE batch]

\* Mutant of NewBatch: the current batch is not reset.
NewBatch_NotReset == currentBatch

\* "Start a new batch": currentBatch = [].
NewBatch == <<>>

\* Mutant of CloseBatch: the height of the last item is recorded.
CloseBatch_LastItemHeight(batch) ==
  LET maxHeight == batch[Len(batch)].z + batch[Len(batch)].height
  IN [items |-> batch, itemCount |-> Len(batch), maxHeight |-> maxHeight,
      printTime |-> LayerCount(maxHeight) * Beds[selectedPrinter].layerTime]

\* The record pushed on batches when a batch is closed.
CloseBatch(batch) ==
  LET maxHeight == MaxSeq([i \in 1..Len(batch) |-> batch[i].z + batch[i].height])
  IN [items |-> batch, itemCount |-> Len(batch), maxHeight |-> maxHeight,
      printTime |-> LayerCount(maxHeight) * Beds[selectedPrinter].layerTime]

\* formatPrintTime: hours and whole minutes; the seconds are dropped.
formatPrintTime(seconds) ==
  [kind |-> "formatted", hours |-> seconds \div 3600,
   minutes |-> (seconds % 3600) \div 60]

NoResult == [kind |-> "none"]

\* Mutant of FinalPrintTime: the final batch's time is not added.
FinalPrintTime_NotAdded == totalPrintTime

\* totalPrintTime after "Add final batch if items remain".
FinalPrintTime ==
  IF Len(currentBatch) > 0
    THEN totalPrintTime + CloseBatch(currentBatch).printTime
    ELSE totalPrintTime

\* batches after "Add final batch if items remain".
FinalBatches ==
  IF Len(currentBatch) > 0
    THEN Append(batches, CloseBatch(currentBatch))
    ELSE batches

\* The object returned when no row yields an item.
EmptyResult ==
  [items |-> <<>>, packed |-> <<>>, unpacked |-> <<>>, totalItems |-> 0,
   packedItems |-> 0, batchCount |-> 0, batches |-> <<>>,
   printTime |-> [kind |-> "number", value |-> 0]]

\* No batch arrangement is being computed.
BatchIdle ==
  /\ selectedPrinter = "400"
  /\ stlRows = <<>>
  /\ pc = "idle"
  /\ items = <<>>
  /\ idx = 1
  /\ batches = <<>>
  /\ currentBatch = <<>>
  /\ packed = <<>>
  /\ unpacked = <<>>
  /\ packedItems = 0
  /\ totalPrintTime = 0
  /\ result = NoResult
  /\ lastStep = [kind |-> "none"]

\* calculatePrinterPacking is not called on its own.
PackIdle == packInput = NoResult /\ packResult = NoResult

\* calculateCostAndPacking is not called.
CostIdle == costInput = NoResult /\ costResult = NoResult /\ costLog = <<>>

\* No file is being uploaded.
UploadIdle == uploads = <<>> /\ row = NoResult /\ hasWorker = FALSE

\* No buffer is handed to the mesh computations on its own.
MeshIdle ==
  /\ meshBuffer = NoResult
  /\ workerReply = NoResult
  /\ mainThreadResult = NoResult

\* findPositionForItem is not called on its own.
FindIdle == findInput = NoResult /\ findResult = NoResult

\* No model is loaded.
OrientIdle ==
  /\ originalSize = NoResult
  /\ orientationData = NoResult
  /\ requested = <<>>
  /\ orientedDims = NoResult

Init ==
  /\ FindIdle
  /\ selectedPrinter \in DOMAIN Beds
  /\ stlRows \in InputRows(selectedPrinter)
  /\ pc = "start"
  /\ items = <<>>
  /\ idx = 1
  /\ batches = <<>>
  /\ currentBatch = <<>>
  /\ packed = <<>>
  /\ unpacked = <<>>
  /\ packedItems = 0
  /\ totalPrintTime = 0
  /\ result = NoResult
  /\ lastStep = [kind |-> "none"]
  /\ PackIdle
  /\ CostIdle
  /\ OrientIdle
  /\ UploadIdle
  /\ MeshIdle

\* Rows are filtered and expanded; nothing is left: the empty result is
\* returned.
CollectNone ==
  /\ pc = "start"
  /\ CollectItems(1) = <<>>
  /\ pc' = "done"
  /\ result' = EmptyResult
  /\ UNCHANGED <<selectedPrinter, stlRows, items, idx, batches, currentBatch,
                 packed, unpacked, packedItems, totalPrintTime, lastStep>>
  /\ UNCHANGED nonBatchVars

\* Rows are filtered and expanded, the items sorted by height, and the
\* packing variables initialised.
CollectAndSort ==
  /\ pc = "start"
  /\ CollectItems(1) # <<>>
  /\ items' = SortByHeightDesc(CollectItems(1))
  /\ pc' = "pack"
  /\ idx' = 1
  /\ batches' = <<>>
  /\ currentBatch' = <<>>
  /\ packed' = <<>>
  /\ unpacked' = <<>>
  /\ packedItems' = 0
  /\ totalPrintTime' = 0
  /\ UNCHANGED <<selectedPrinter, stlRows, result, lastStep>>
  /\ UNCHANGED nonBatchVars

\* One iteration of items.forEach: the item is placed in the current batch;
\* or the batch, having items, is finalised, a new one started and the item
\* tried again; or the batch is empty and the item is "too large to fit even
\* in empty batch".
ProcessItem ==
  /\ pc = "pack"
  /\ idx <= Len(items)
  /\ LET item   == items[idx]
         try    == placeItem(currentBatch, item)
         closed == CloseBatch(currentBatch)
         retry  == placeItem(NewBatch, item)
     IN IF try.placed
          THEN /\ currentBatch' = try.batch
               /\ packedItems' = packedItems + 1
               /\ packed' = Append(packed, item)
               /\ lastStep' = [kind |-> "placed", id |-> item.id]
               /\ UNCHANGED <<batches, totalPrintTime, unpacked>>
          ELSE IF Len(currentBatch) > 0
            THEN /\ batches' = Append(batches, closed)
                 /\ totalPrintTime' = totalPrintTime + closed.printTime
                 /\ currentBatch' = retry.batch
                 /\ IF retry.placed
                      THEN /\ packedItems' = packedItems + 1
                           /\ packed' = Append(packed, item)
                           /\ unpacked' = unpacked
                           /\ lastStep' = [kind |-> "overflow-placed", id |-> item.id]
                      ELSE /\ packedItems' = packedItems
                           /\ packed' = packed
                           /\ unpacked' = Append(unpacked, item)
                           /\ lastStep' = [kind |-> "overflow-unpacked", id |-> item.id]
            ELSE /\ unpacked' = Append(unpacked, item)
                 /\ lastStep' = [kind |-> "rejected-empty", id |-> item.id]
                 /\ UNCHANGED <<batches, totalPrintTime, currentBatch, packed,
                                packedItems>>
  /\ idx' = idx + 1
  /\ UNCHANGED <<selectedPrinter, stlRows, pc, items, result>>
  /\ UNCHANGED nonBatchVars

\* After the loop: the final batch is added if it has items, and the result
\* is returned.
Finish ==
  /\ pc = "pack"
  /\ idx > Len(items)
  /\ LET final == FinalBatches
         total == FinalPrintTime
     IN /\ batches' = final
        /\ totalPrintTime' = total
        /\ result' = [items |-> items, packed |-> packed, unpacked |-> unpacked,
                      totalItems |-> Len(items), packedItems |-> packedItems,
                      batchCount |-> Len(final), batches |-> final,
                      printTime |-> formatPrintTime(total),
                      rawPrintTime |-> total]
  /\ pc' = "done"
  /\ UNCHANGED <<selectedPrinter, stlRows, items, idx, currentBatch, packed,
                 unpacked, packedItems, lastStep>>
  /\ UNCHANGED nonBatchVars

Next ==
  \/ CollectNone
  \/ CollectAndSort
  \/ ProcessItem
  \/ Finish

Spec == Init /\ [][Next]_vars

\* ------------------------------------------------------------------------
\* findPositionForItem on its own
\* ------------------------------------------------------------------------
\* The available width and depth it is called with.
FindBeds == {<<80, 80>>, <<100, 60>>}

\* Entries of a batch: corners and footprints that lie inside both beds.
FindPlaced ==
  [x : {WALL_MARGIN, 45}, y : {WALL_MARGIN, 45}, width : {20},
   depth : {10, 20}]

\* The batches it is called with: up to two entries clear of each other by
\* the spacing, as placeItem leaves them.
FindBatches ==
  {<<>>} \cup {<<e>> : e \in FindPlaced}
    \cup {b \in [1..2 -> FindPlaced] :
            ~Overlaps(b[2].x, b[2].y, b[2].width, b[2].depth,
                      OBJECT_SPACING, b[1])}

\* The footprints it is asked to place.
FindLengths == {10, 50, 75}

InitFind ==
  /\ BatchIdle
  /\ PackIdle
  /\ CostIdle
  /\ OrientIdle
  /\ UploadIdle
  /\ MeshIdle
  /\ \E bed \in FindBeds :
       findInput \in [currentBatch : FindBatches, width : FindLengths,
                      depth : FindLengths, maxWidth : {bed[1]},
                      maxDepth : {bed[2]}, spacing : {OBJECT_SPACING}]
  /\ findResult = NoResult

CallFindPosition ==
  /\ findInput # NoResult
  /\ findResult = NoResult
  /\ findResult' = findPositionForItem(findInput.currentBatch, findInput.width,
                      findInput.depth, findInput.maxWidth, findInput.maxDepth,
                      findInput.spacing)
  /\ UNCHANGED findInput
  /\ UNCHANGED nonFindVars

NextFind == CallFindPosition

SpecFind == InitFind /\ [][NextFind]_vars

\* ------------------------------------------------------------------------
\* calculatePrinterPacking
\* ------------------------------------------------------------------------
SinglePrinters == ("400" :> printer400) @@ ("600" :> printer600)

\* Object dimensions offered to the single-bed packer.
PackWidths == {50, 100, 185, 370, 371, 500, 575}

PackDepths == {50, 135, 270, 271, 580}

PackHeights == {50, 67, 200, 201, 250}

\* Innermost loop of generateObjectPositions: one row along x.
RowOfPositions(width, countX, yPos, zPos) ==
  [x \in 1..countX |->
     [x |-> (x - 1) * (width + OBJECT_SPACING), y |-> yPos, z |-> zPos]]

\* Mutant of LayerOfPositions: the y loop runs one row too far.
RECURSIVE LayerOfPositions_OneMore(_, _, _, _, _, _)
LayerOfPositions_OneMore(width, depth, countX, countY, y, zPos) ==
  IF y > countY THEN <<>>
  ELSE RowOfPositions(width, countX, y * (depth + OBJECT_SPACING), zPos)
       \o LayerOfPositions_OneMore(width, depth, countX, countY, y + 1, zPos)

\* Middle loop: rows y, y + 1, ... countY - 1 of one layer.
RECURSIVE LayerOfPositions(_, _, _, _, _, _)
LayerOfPositions(width, depth, countX, countY, y, zPos) ==
  IF y >= countY THEN <<>>
  ELSE RowOfPositions(width, countX, y * (depth + OBJECT_SPACING), zPos)
       \o LayerOfPositions(width, depth, countX, countY, y + 1, zPos)

\* Outer loop: layers z, z + 1, ... countZ - 1.
RECURSIVE PositionsFrom(_, _, _, _, _, _, _)
PositionsFrom(width, depth, height, countX, countY, countZ, z) ==
  IF z >= countZ THEN <<>>
  ELSE LayerOfPositions(width, depth, countX, countY, 0, z * height)
       \o PositionsFrom(width, depth, height, countX, countY, countZ, z + 1)

\* Mutant of generateObjectPositions: the x loop is the outermost one.
generateObjectPositions_XOutermost(width, depth, height, countX, countY, countZ) ==
  [n \in 1..(countX * countY * countZ) |->
     [x |-> ((n - 1) \div (countY * countZ)) * (width + OBJECT_SPACING),
      y |-> (((n - 1) \div countZ) % countY) * (depth + OBJECT_SPACING),
      z |-> ((n - 1) % countZ) * height]]

generateObjectPositions(width, depth, height, countX, countY, countZ) ==
  PositionsFrom(width, depth, height, countX, countY, countZ, 0)

\* The "does not fit" object.
DoesNotFit ==
  [fitsInPrinter |-> FALSE, countX |-> 0, countY |-> 0, countZ |-> 0,
   totalObjects |-> 0, positions |-> <<>>]

\* Mutant of ObjectTooLarge: the footprint turned by 90 degrees is tried too.
ObjectTooLarge_TriesRotated(width, depth, height, printer) ==
  \/ /\ \/ width > printer.width - (2 * WALL_MARGIN)
        \/ depth > printer.depth - (2 * WALL_MARGIN)
     /\ \/ depth > printer.width - (2 * WALL_MARGIN)
        \/ width > printer.depth - (2 * WALL_MARGIN)
  \/ height > printer.height

\* Mutant of ObjectTooLarge: the height is not tested.
ObjectTooLarge_IgnoresHeight(width, depth, height, printer) ==
  \/ width > printer.width - (2 * WALL_MARGIN)
  \/ depth > printer.depth - (2 * WALL_MARGIN)

ObjectTooLarge(width, depth, height, printer) ==
  \/ width > printer.width - (2 * WALL_MARGIN)
  \/ depth > printer.depth - (2 * WALL_MARGIN)
  \/ height > printer.height

\* Mutant of CountX: the wall margins are not taken off the printer width.
CountX_NoMargin(width, printer) ==
  (printer.width + OBJECT_SPACING) \div (width + OBJECT_SPACING)

CountX(width, printer) ==
  ((printer.width - (2 * WALL_MARGIN)) + OBJECT_SPACING) \div (width + OBJECT_SPACING)

CountY(depth, printer) ==
  ((printer.depth - (2 * WALL_MARGIN)) + OBJECT_SPACING) \div (depth + OBJECT_SPACING)

\* Mutant of CountZ: the object spacing is applied vertically as well.
CountZ_WithSpacing(height, printer) ==
  (printer.height + OBJECT_SPACING) \div (height + OBJECT_SPACING)

CountZ(height, printer) == printer.height \div height

calculatePrinterPacking(width, depth, height, printer) ==
  IF ObjectTooLarge(width, depth, height, printer) THEN DoesNotFit
  ELSE LET countX == CountX(width, printer)
           countY == CountY(depth, printer)
           countZ == CountZ(height, printer)
       IN [fitsInPrinter |-> TRUE, countX |-> countX, countY |-> countY,
           countZ |-> countZ, totalObjects |-> countX * countY * countZ,
           positions |-> generateObjectPositions(width, depth, height,
                                                 countX, countY, countZ),
           width |-> printer.width, depth |-> printer.depth,
           height |-> countZ * height]

InitPacking ==
  /\ FindIdle
  /\ BatchIdle
  /\ CostIdle
  /\ OrientIdle
  /\ UploadIdle
  /\ MeshIdle
  /\ packInput \in [width : PackWidths, depth : PackDepths,
                    height : PackHeights, printer : DOMAIN SinglePrinters]
  /\ packResult = NoResult

\* calculatePrinterPacking(width, depth, height, printer) is called.
CallPrinterPacking ==
  /\ pc = "idle"
  /\ packResult = NoResult
  /\ packResult' = calculatePrinterPacking(packInput.width, packInput.depth,
                     packInput.height, SinglePrinters[packInput.printer])
  /\ UNCHANGED packInput
  /\ UNCHANGED nonPackVars

NextPacking == CallPrinterPacking

SpecPacking == InitPacking /\ [][NextPacking]_vars

\* ------------------------------------------------------------------------
\* JavaScript numbers
\* ------------------------------------------------------------------------
\* A number is the fraction n / d in lowest terms with d > 0.  d = 0 marks
\* the values that are not finite: Infinity (n = 1), -Infinity (n = -1) and
\* NaN (n = 0); NaN also stands for undefined where a number is expected
\* (isNaN(undefined), !undefined and undefined <= 0 behave as for NaN).  The
\* rounding of the binary representation is not modelled.
RECURSIVE Gcd(_, _)
Gcd(a, b) == IF b = 0 THEN a ELSE Gcd(b, a % b)

Abs(a) == IF a < 0 THEN -a ELSE a

Sign(a) == IF a > 0 THEN 1 ELSE IF a < 0 THEN -1 ELSE 0

Num(n, d) ==
  IF d = 0 THEN [n |-> Sign(n), d |-> 0]
  ELSE LET g == Gcd(Abs(n), Abs(d))
       IN [n |-> Sign(d) * (n \div g), d |-> Abs(d) \div g]

FromInt(i) == [n |-> i, d |-> 1]

Zero == FromInt(0)

NaN == [n |-> 0, d |-> 0]

Infinity == [n |-> 1, d |-> 0]

NegInfinity == [n |-> -1, d |-> 0]

isNaN(a) == a = NaN

\* !a for a number a.
Falsy(a) == a = Zero \/ a = NaN

\* a * b; 0 * Infinity is NaN.
Times(a, b) ==
  IF a.d = 0 \/ b.d = 0 THEN Num(a.n * b.n, 0)
  ELSE LET g1 == Gcd(Abs(a.n), b.d)
           g2 == Gcd(Abs(b.n), a.d)
       IN Num((a.n \div g1) * (b.n \div g2), (a.d \div g2) * (b.d \div g1))

\* a + b; Infinity + -Infinity is NaN.
Plus(a, b) ==
  IF a.d = 0 /\ b.d = 0 THEN (IF a = b THEN a ELSE NaN)
  ELSE IF a.d = 0 THEN a
  ELSE IF b.d = 0 THEN b
  ELSE LET g == Gcd(a.d, b.d)
       IN Num((a.n * (b.d \div g)) + (b.n * (a.d \div g)), (a.d \div g) * b.d)

\* a <= b; false when either side is NaN.
LessEq(a, b) ==
  /\ ~isNaN(a)
  /\ ~isNaN(b)
  /\ IF a.d = 0 /\ b.d = 0 THEN a.n <= b.n ELSE a.n * b.d <= b.n * a.d

\* a > b; false when either side is NaN.
Greater(a, b) == ~isNaN(a) /\ ~isNaN(b) /\ ~LessEq(a, b)

\* ------------------------------------------------------------------------
\* calculateCostAndPacking
\* ------------------------------------------------------------------------
POWDER_KG_PER_CM3 == Num(2, 1000)

BINDER_ML_PER_CM3 == Num(27, 100)

SILICA_G_PER_CM3 == Num(55, 100)

pricing ==
  ("EUR" :> [powder |-> Num(92857, 1000), binder |-> Num(85, 1000),
             silica |-> Num(69, 1000), glaze |-> Num(88, 9000)])
  @@ ("USD" :> [powder |-> FromInt(100), binder |-> Num(9, 100),
                silica |-> Num(72, 1000), glaze |-> Num(91, 9000)])
  @@ ("JPY" :> [powder |-> Num(200000, 14), binder |-> Num(250000, 20000),
                silica |-> FromInt(11), glaze |-> Num(14000, 9000)])
  @@ ("SGD" :> [powder |-> FromInt(135), binder |-> Num(12, 100),
                silica |-> Num(10, 100), glaze |-> Num(1365, 100000)])

calculateGlazeUsage(volumeCm3) ==
  Plus(Times(Num(1615, 10000), volumeCm3), Num(3176, 100))

\* The value of a missing argument.
undefined == [kind |-> "undefined"]

null == [kind |-> "null"]

\* The print time of a printer the object does not fit.
NotAvailable == [kind |-> "N/A"]

\* The test of line 9.
InvalidVolume(dimensions, volume) ==
  \/ dimensions = undefined
  \/ Falsy(volume)
  \/ isNaN(volume)
  \/ LessEq(volume, Zero)

\* The test of lines 14-15.
InvalidDimensions(dimensions) ==
  \/ isNaN(dimensions.width)
  \/ isNaN(dimensions.depth)
  \/ isNaN(dimensions.height)
  \/ LessEq(dimensions.width, Zero)
  \/ LessEq(dimensions.depth, Zero)
  \/ LessEq(dimensions.height, Zero)

currencyPricing(currency) ==
  IF currency \in DOMAIN pricing THEN pricing[currency] ELSE pricing["USD"]

\* Mutant of GlazeG: the glaze flag is ignored.
GlazeG_AlwaysApplied(applyGlaze, volume) == calculateGlazeUsage(volume)

GlazeG(applyGlaze, volume) ==
  IF applyGlaze THEN calculateGlazeUsage(volume) ELSE Zero

\* calculatePrinterPacking on numbers that passed the validation: positive,
\* and whole unless Infinity, for which the first test of the packer holds.
PackingOf(dimensions, printer) ==
  IF \/ Greater(dimensions.width, FromInt(printer.width - (2 * WALL_MARGIN)))
     \/ Greater(dimensions.depth, FromInt(printer.depth - (2 * WALL_MARGIN)))
     \/ Greater(dimensions.height, FromInt(printer.height))
  THEN DoesNotFit
  ELSE calculatePrinterPacking(dimensions.width.n, dimensions.depth.n,
                               dimensions.height.n, printer)

\* Mutant of PrintTimeOf: the layers of one object, not of the whole stack.
PrintTimeOf_OneObject(packing, height, printer) ==
  IF packing.fitsInPrinter
  THEN [kind |-> "number", value |-> LayerCount(height.n) * printer.layerTime]
  ELSE NotAvailable

PrintTimeOf(packing, height, printer) ==
  IF packing.fitsInPrinter
  THEN [kind |-> "number",
        value |-> LayerCount(packing.height) * printer.layerTime]
  ELSE NotAvailable

BatchCostOf(packing, totalCost) ==
  IF packing.fitsInPrinter
  THEN Times(FromInt(packing.totalObjects), totalCost)
  ELSE Zero

\* The returned value and the lines written to the console.
calculateCostAndPacking(dimensions, volume, applyGlaze, currency) ==
  IF InvalidVolume(dimensions, volume) \/ InvalidDimensions(dimensions)
  THEN [value |-> null, log |-> <<"Error in cost calculation">>]
  ELSE
    LET price       == currencyPricing(currency)
        powderKg    == Times(volume, POWDER_KG_PER_CM3)
        binderMl    == Times(volume, BINDER_ML_PER_CM3)
        silicaG     == Times(volume, SILICA_G_PER_CM3)
        glazeG      == GlazeG(applyGlaze, volume)
        costPowder  == Times(powderKg, price.powder)
        costBinder  == Times(binderMl, price.binder)
        costSilica  == Times(silicaG, price.silica)
        costGlaze   == Times(glazeG, price.glaze)
        totalCost   == Plus(Plus(Plus(costPowder, costBinder), costSilica),
                            costGlaze)
        packing400  == PackingOf(dimensions, printer400)
        packing600  == PackingOf(dimensions, printer600)
    IN [value |->
          [kind |-> "result",
           dimensions |-> dimensions,
           volume |-> volume,
           materialUsage |-> [powder |-> powderKg, binder |-> binderMl,
                              silica |-> silicaG, glaze |-> glazeG],
           costs |-> [powder |-> costPowder, binder |-> costBinder,
                      silica |-> costSilica, glaze |-> costGlaze,
                      total |-> totalCost],
           printer400 |->
             [printTime |-> PrintTimeOf(packing400, dimensions.height,
                                        printer400),
              batchCost |-> BatchCostOf(packing400, totalCost)] @@ packing400,
           printer600 |->
             [printTime |-> PrintTimeOf(packing600, dimensions.height,
                                        printer600),
              batchCost |-> BatchCostOf(packing600, totalCost)] @@ packing600],
        log |-> <<>>]

\* Arguments offered to calculateCostAndPacking.
Dims(w, d, h) == [width |-> w, depth |-> d, height |-> h]

CostDimensions ==
  { Dims(FromInt(100), FromInt(100), FromInt(100)),
    Dims(FromInt(380), FromInt(100), FromInt(60)),
    Dims(FromInt(100), FromInt(100), FromInt(251)),
    Dims(Infinity, FromInt(100), FromInt(100)),
    Dims(FromInt(100), FromInt(100), NaN),
    Dims(Zero, FromInt(100), FromInt(100)),
    Dims(FromInt(100), FromInt(-100), FromInt(100)),
    undefined }

CostVolumes ==
  { FromInt(10), FromInt(20), FromInt(30), Num(25, 2), Zero, FromInt(-5),
    NaN, Infinity, NegInfinity }

CostCurrencies == {"USD", "EUR", "JPY", "SGD", "GBP"}

InitCost ==
  /\ FindIdle
  /\ BatchIdle
  /\ PackIdle
  /\ OrientIdle
  /\ UploadIdle
  /\ MeshIdle
  /\ costInput \in [dimensions : CostDimensions, volume : CostVolumes,
                    applyGlaze : BOOLEAN, currency : CostCurrencies]
  /\ costResult = NoResult
  /\ costLog = <<>>

\* calculateCostAndPacking(dimensions, volume, applyGlaze, currency) is
\* called.
CallCostAndPacking ==
  /\ pc = "idle"
  /\ costInput # NoResult
  /\ costResult = NoResult
  /\ LET r == calculateCostAndPacking(costInput.dimensions, costInput.volume,
                                      costInput.applyGlaze, costInput.currency)
     IN /\ costResult' = r.value
        /\ costLog' = costLog \o r.log
  /\ UNCHANGED costInput
  /\ UNCHANGED nonCostVars

NextCost == CallCostAndPacking

SpecCost == InitCost /\ [][NextCost]_vars

\* ------------------------------------------------------------------------
\* Orientation of a loaded model
\* ------------------------------------------------------------------------
\* Edge lengths of the bounding box of an uploaded model, per axis.
RawLengths == {20, 30, 250, 300}

\* Math.ceil(value / 0.1) in exact arithmetic.
LayersOf(value) == -((-(value.n * 10)) \div value.d)

\* Array.prototype.sort with (a, b) => b - a: stable, largest first.
RECURSIVE InsertDescending(_, _)
InsertDescending(s, v) ==
  IF s = <<>> THEN <<v>>
  ELSE IF Greater(v, Head(s)) THEN <<v>> \o s
  ELSE <<Head(s)>> \o InsertDescending(Tail(s), v)

RECURSIVE SortDescending(_)
SortDescending(s) ==
  IF s = <<>> THEN <<>>
  ELSE InsertDescending(SortDescending(SubSeq(s, 1, Len(s) - 1)), s[Len(s)])

\* Array.prototype.sort with (a, b) => a - b: stable, smallest first.
RECURSIVE InsertAscending(_, _)
InsertAscending(s, v) ==
  IF s = <<>> THEN <<v>>
  ELSE IF Greater(Head(s), v) THEN <<v>> \o s
  ELSE <<Head(s)>> \o InsertAscending(Tail(s), v)

RECURSIVE SortAscending(_)
SortAscending(s) ==
  IF s = <<>> THEN <<>>
  ELSE InsertAscending(SortAscending(SubSeq(s, 1, Len(s) - 1)), s[Len(s)])

\* The vertical layout: the longest edge on Z, scaled down when it is taller
\* than Printer 600.
VerticalLayout(maxDim, midDim, minDim) ==
  IF LessEq(maxDim, FromInt(printer600.height))
  THEN [width |-> minDim, depth |-> midDim, height |-> maxDim,
        printTime |-> LayersOf(maxDim) * printer600.layerTime]
  ELSE LET scale == Times(FromInt(printer600.height), Num(maxDim.d, maxDim.n))
       IN [width |-> Times(minDim, scale), depth |-> Times(midDim, scale),
           height |-> FromInt(printer600.height),
           printTime |-> LayersOf(FromInt(printer600.height))
                           * printer600.layerTime]

\* The flat layout: the shortest edge on Z.
FlatLayout(maxDim, midDim, minDim) ==
  [width |-> maxDim, depth |-> midDim, height |-> minDim,
   printTime |-> LayersOf(minDim) * printer600.layerTime]

determineOptimalOrientation(width, depth, height) ==
  LET dimensions == SortDescending(<<width, depth, height>>)
      flat       == FlatLayout(dimensions[1], dimensions[2], dimensions[3])
  IN [width |-> flat.width, depth |-> flat.depth, height |-> flat.height,
      type |-> "flat", printTime |-> flat.printTime,
      vertical |-> VerticalLayout(dimensions[1], dimensions[2], dimensions[3]),
      flat |-> flat]

\* Mutant of updatePackingWithOrientation: the dimensions are taken in the
\* order given.
updatePackingWithOrientation_Unsorted(width, depth, height, orientation) ==
  IF orientation = "vertical"
  THEN [width |-> width, depth |-> depth, height |-> height]
  ELSE [width |-> height, depth |-> depth, height |-> width]

updatePackingWithOrientation(width, depth, height, orientation) ==
  LET dimensions == SortAscending(<<width, depth, height>>)
  IN IF orientation = "vertical"
     THEN [width |-> dimensions[1], depth |-> dimensions[2],
           height |-> dimensions[3]]
     ELSE [width |-> dimensions[3], depth |-> dimensions[2],
           height |-> dimensions[1]]

\* Mutant of changeOrientation: the print time of the old layout is kept.
changeOrientation_StalePrintTime(data, orientationType) ==
  LET layout == IF orientationType = "vertical" THEN data.vertical
                ELSE data.flat
  IN [data EXCEPT !.type = orientationType, !.width = layout.width,
                  !.depth = layout.depth, !.height = layout.height]

\* The update of the orientation data at the end of changeOrientation.
changeOrientation(data, orientationType) ==
  LET layout == IF orientationType = "vertical" THEN data.vertical
                ELSE data.flat
  IN [data EXCEPT !.type = orientationType, !.width = layout.width,
                  !.depth = layout.depth, !.height = layout.height,
                  !.printTime = layout.printTime]

InitOrient ==
  /\ FindIdle
  /\ BatchIdle
  /\ PackIdle
  /\ CostIdle
  /\ UploadIdle
  /\ MeshIdle
  /\ originalSize \in [x : RawLengths, y : RawLengths, z : RawLengths]
  /\ orientationData = NoResult
  /\ requested = <<>>
  /\ orientedDims = NoResult

\* displaySTLGeometry: the orientation data of the uploaded model is
\* computed from its bounding box and stored in the scene and on the row.
DisplaySTLGeometry ==
  /\ pc = "idle"
  /\ originalSize # NoResult
  /\ orientationData = NoResult
  /\ orientationData' = determineOptimalOrientation(FromInt(originalSize.x),
                          FromInt(originalSize.y), FromInt(originalSize.z))
  /\ UNCHANGED <<originalSize, requested, orientedDims>>
  /\ UNCHANGED nonOrientVars

\* changeSTLOrientation(rowId, orientation) on a loaded model: the object
\* changeOrientation updates and returns is the one stored on the row; the
\* refresh of the displayed results that follows leaves it alone.
ChangeSTLOrientation(orientation) ==
  /\ pc = "idle"
  /\ orientationData # NoResult
  /\ Len(requested) < MaxSwitches
  /\ orientationData' = changeOrientation(orientationData, orientation)
  /\ requested' = Append(requested, orientation)
  /\ UNCHANGED <<originalSize, orientedDims>>
  /\ UNCHANGED nonOrientVars

\* updatePackingWithOrientation(width, depth, height, orientation) is called
\* with the raw dimensions.
CallUpdatePacking(orientation) ==
  /\ pc = "idle"
  /\ originalSize # NoResult
  /\ orientedDims = NoResult
  /\ orientedDims' =
       [orientation |-> orientation,
        dims |-> updatePackingWithOrientation(FromInt(originalSize.x),
                   FromInt(originalSize.y), FromInt(originalSize.z),
                   orientation)]
  /\ UNCHANGED <<originalSize, orientationData, requested>>
  /\ UNCHANGED nonOrientVars

NextOrient ==
  \/ DisplaySTLGeometry
  \/ \E orientation \in {"flat", "vertical"} : ChangeSTLOrientation(orientation)
  \/ \E orientation \in {"flat", "vertical"} : CallUpdatePacking(orientation)

SpecOrient == InitOrient /\ [][NextOrient]_vars

\* ------------------------------------------------------------------------
\* STL upload: processSTLFile, the worker and the main-thread computation
\* ------------------------------------------------------------------------
\* A binary STL buffer is its length in bytes, the triangle count declared
\* at offset 80 and the 50-byte triangle records that follow the 84-byte
\* header: the records listed in triangles come first, every byte after
\* them is zero.  A vertex is <<x, y, z>> in mm.
Origin == <<0, 0, 0>>

\* The largest triangle count both parsers accept.
TriangleLimit == 5000000

\* The offset of the first triangle record.
HeaderBytes == 84

\* The bytes the offset advances per record: normal, three vertices and the
\* attribute byte count.
RecordBytes == 50

\* The bytes of a record up to the end of its third vertex; the two
\* attribute bytes after them are skipped and never read.
VertexBytes == 48

\* Two faces of the tetrahedron spanned by the origin and the points
\* (w, 0, 0), (0, d, 0), (0, 0, h): the bottom and the slanted one.  The two
\* faces left out add nothing to the volume sum or to the bounding box.
Wedge(w, d, h) ==
  << <<Origin, <<0, d, 0>>, <<w, 0, 0>>>>,
     <<<<w, 0, 0>>, <<0, d, 0>>, <<0, 0, h>>>> >>

\* The files a user drops on a row.  display is what the viewer does with
\* the buffer of the file once its geometry is known: it yields orientation
\* data ("shown") or throws ("throws").
STLFiles ==
  { [name |-> "small", ext |-> "stl", byteLength |-> 184, declared |-> 2,
     triangles |-> Wedge(10, 20, 30), display |-> "shown"],
    [name |-> "large", ext |-> "stl", byteLength |-> 184, declared |-> 2,
     triangles |-> Wedge(60, 20, 20), display |-> "shown"],
    [name |-> "broken", ext |-> "stl", byteLength |-> 184, declared |-> 2,
     triangles |-> Wedge(30, 10, 10), display |-> "throws"],
    [name |-> "truncated", ext |-> "stl", byteLength |-> 134, declared |-> 2,
     triangles |-> SubSeq(Wedge(10, 20, 30), 1, 1), display |-> "throws"],
    [name |-> "notes", ext |-> "txt", byteLength |-> 20, declared |-> 0,
     triangles |-> <<>>, display |-> "throws"] }

\* The array buffer FileReader yields for a file.
BufferOf(file) ==
  [byteLength |-> file.byteLength, declared |-> file.declared,
   triangles |-> file.triangles]

\* Whether the getFloat32 reads of the i-th record stay inside the buffer;
\* a read past the end throws a RangeError.
RecordReadable(arrayBuffer, i) ==
  HeaderBytes + (RecordBytes * (i - 1)) + VertexBytes <= arrayBuffer.byteLength

\* The records the loop over the declared count reads: the listed triangles
\* and, past them, zeroRecords records of zero bytes (all vertices at the
\* origin).
ReadMesh(arrayBuffer) ==
  IF arrayBuffer.declared <= Len(arrayBuffer.triangles)
  THEN [triangles |-> SubSeq(arrayBuffer.triangles, 1, arrayBuffer.declared),
        zeroRecords |-> 0]
  ELSE [triangles |-> arrayBuffer.triangles,
        zeroRecords |-> arrayBuffer.declared - Len(arrayBuffer.triangles)]

\* triangles.length.
TriangleCount(mesh) == Len(mesh.triangles) + mesh.zeroRecords

\* Six times the signed volume of the tetrahedron a triangle spans with the
\* origin.
SignedVolume6(t) ==
  LET v1 == t[1]
      v2 == t[2]
      v3 == t[3]
      crossX == ((v2[2] - v1[2]) * (v3[3] - v1[3]))
                  - ((v2[3] - v1[3]) * (v3[2] - v1[2]))
      crossY == ((v2[3] - v1[3]) * (v3[1] - v1[1]))
                  - ((v2[1] - v1[1]) * (v3[3] - v1[3]))
      crossZ == ((v2[1] - v1[1]) * (v3[2] - v1[2]))
                  - ((v2[2] - v1[2]) * (v3[1] - v1[1]))
  IN (v1[1] * crossX) + (v1[2] * crossY) + (v1[3] * crossZ)

\* Math.abs(sum of the signed volumes) / 1000; a record of zero bytes adds
\* a signed volume of 0.
computeVolumeCm3(mesh) ==
  Num(Abs(SumSeq([i \in 1..Len(mesh.triangles) |->
                    SignedVolume6(mesh.triangles[i])])),
      6000)

\* All coordinates of the triangles along one axis.
Coordinates(mesh, axis) ==
  {mesh.triangles[i][j][axis] : i \in 1..Len(mesh.triangles), j \in 1..3}
    \cup (IF mesh.zeroRecords > 0 THEN {0} ELSE {})

SetMax(S) == CHOOSE m \in S : \A n \in S : m >= n

\* Math.min / Math.max folded over the coordinates, starting from Infinity
\* and -Infinity.
MinAlong(mesh, axis) ==
  IF TriangleCount(mesh) = 0 THEN Infinity
  ELSE FromInt(SetMin(Coordinates(mesh, axis)))

MaxAlong(mesh, axis) ==
  IF TriangleCount(mesh) = 0 THEN NegInfinity
  ELSE FromInt(SetMax(Coordinates(mesh, axis)))

\* max - min.
Extent(mesh, axis) ==
  LET lo == MinAlong(mesh, axis)
  IN Plus(MaxAlong(mesh, axis), [lo EXCEPT !.n = -lo.n])

BoundingBox(mesh) ==
  [width |-> Extent(mesh, 1), depth |-> Extent(mesh, 2),
   height |-> Extent(mesh, 3),
   min |-> [axis \in 1..3 |-> MinAlong(mesh, axis)],
   max |-> [axis \in 1..3 |-> MaxAlong(mesh, axis)]]

\* calculateDimensions of the worker.
calculateDimensions(mesh) ==
  IF TriangleCount(mesh) = 0
  THEN [width |-> Zero, depth |-> Zero, height |-> Zero]
  ELSE BoundingBox(mesh)

\* parseBinarySTL of the worker: getUint32(80) needs the whole header, then
\* the declared number of records is read in order.
parseBinarySTL(arrayBuffer) ==
  IF arrayBuffer.byteLength < HeaderBytes
  THEN [ok |-> FALSE, error |-> "RangeError"]
  ELSE IF arrayBuffer.declared > TriangleLimit
  THEN [ok |-> FALSE, error |-> "STL file too large"]
  ELSE IF /\ arrayBuffer.declared > 0
          /\ ~RecordReadable(arrayBuffer, arrayBuffer.declared)
  THEN [ok |-> FALSE, error |-> "RangeError"]
  ELSE [ok |-> TRUE, triangles |-> ReadMesh(arrayBuffer)]

\* self.onmessage of stl-worker.js: the message posted back.
WorkerOnMessage(arrayBuffer) ==
  LET parsed == parseBinarySTL(arrayBuffer)
  IN IF parsed.ok
     THEN [success |-> TRUE,
           volumeCm3 |-> computeVolumeCm3(parsed.triangles),
           dimensions |-> calculateDimensions(parsed.triangles),
           triangleCount |-> TriangleCount(parsed.triangles)]
     ELSE [success |-> FALSE, error |-> parsed.error]

\* processSTLInMainThread: the value it resolves with or the error it
\* throws.
processSTLInMainThread(arrayBuffer) ==
  IF arrayBuffer.byteLength < HeaderBytes
  THEN [ok |-> FALSE, error |-> "RangeError"]
  ELSE IF arrayBuffer.declared > TriangleLimit
  THEN [ok |-> FALSE, error |-> "STL file has too many triangles"]
  ELSE IF /\ arrayBuffer.declared > 0
          /\ ~RecordReadable(arrayBuffer, arrayBuffer.declared)
  THEN [ok |-> FALSE, error |-> "RangeError"]
  ELSE LET mesh == ReadMesh(arrayBuffer)
       IN [ok |-> TRUE,
           value |-> [volumeCm3 |-> computeVolumeCm3(mesh),
                      dimensions |-> BoundingBox(mesh)]]

\* The buffers handed to the two computations on their own: lengths around
\* the header, around one and two records and around TriangleLimit records,
\* with the listed triangles lying inside the buffer.
ByteLengths ==
  {20, 83, 84, 131, 132, 133, 134, 182, 183, 184, 250000082, 250000084}

DeclaredCounts == {0, 1, 2, 3, TriangleLimit, TriangleLimit + 1}

Meshes ==
  {<<>>, SubSeq(Wedge(10, 20, 30), 1, 1), Wedge(10, 20, 30),
   Wedge(60, 20, 20)}

MeshBuffers ==
  {b \in [byteLength : ByteLengths, declared : DeclaredCounts,
          triangles : Meshes] :
     /\ b.byteLength < HeaderBytes => b.declared = 0 /\ b.triangles = <<>>
     /\ Len(b.triangles) > 0 => RecordReadable(b, Len(b.triangles))}

InitMesh ==
  /\ FindIdle
  /\ BatchIdle
  /\ PackIdle
  /\ CostIdle
  /\ OrientIdle
  /\ UploadIdle
  /\ meshBuffer \in MeshBuffers
  /\ workerReply = NoResult
  /\ mainThreadResult = NoResult

\* The buffer is posted to the worker, which posts its reply.
PostToWorker ==
  /\ workerReply = NoResult
  /\ workerReply' = WorkerOnMessage(meshBuffer)
  /\ UNCHANGED <<meshBuffer, mainThreadResult>>
  /\ UNCHANGED nonMeshVars

\* processSTLInMainThread is called with the buffer and settles.
CallMainThread ==
  /\ mainThreadResult = NoResult
  /\ mainThreadResult' = processSTLInMainThread(meshBuffer)
  /\ UNCHANGED <<meshBuffer, workerReply>>
  /\ UNCHANGED nonMeshVars

NextMesh == PostToWorker \/ CallMainThread

SpecMesh == InitMesh /\ [][NextMesh]_vars

\* An upload that was not started.
NewUpload ==
  [pc |-> "new", file |-> NoResult, arrayBuffer |-> NoResult,
   workerFailed |-> "no", mainThreadBuffer |-> NoResult,
   outcome |-> NoResult, rowAtEnd |-> NoResult]

\* A row without a model.
EmptyRow ==
  [stlFile |-> NoResult, stlArrayBuffer |-> NoResult, volumeCm3 |-> NaN,
   dimensions |-> undefined, orientationData |-> undefined,
   errorMessage |-> NoResult]

InitSTL ==
  /\ FindIdle
  /\ BatchIdle
  /\ PackIdle
  /\ CostIdle
  /\ OrientIdle
  /\ MeshIdle
  /\ uploads = [u \in 1..MaxUploads |-> NewUpload]
  /\ row = EmptyRow
  /\ hasWorker \in BOOLEAN

\* The volume and dimensions stored on the row and the error it shows.
RowGeometry(r) ==
  [volumeCm3 |-> r.volumeCm3, dimensions |-> r.dimensions,
   errorMessage |-> r.errorMessage]

\* processSTLFile returns {success: false, error}; handleSTLFileUpload then
\* shows the error on the row.
Failed(u, error) ==
  /\ uploads' = [uploads EXCEPT
                   ![u].pc = "done",
                   ![u].outcome = [success |-> FALSE, error |-> error],
                   ![u].rowAtEnd =
                      RowGeometry([row EXCEPT !.errorMessage = error])]
  /\ row' = [row EXCEPT !.errorMessage = error]

\* The rest of processSTLFile once the geometry data is known: it is stored
\* on the row, the model is displayed, and handleSTLFileUpload shows the
\* results or the error.
Completed(u, geometryData) ==
  LET display == uploads[u].file.display
      stored == [row EXCEPT !.volumeCm3 = geometryData.volumeCm3,
                            !.dimensions = geometryData.dimensions]
  IN IF display = "throws"
     THEN /\ uploads' = [uploads EXCEPT
                           ![u].pc = "done",
                           ![u].outcome = [success |-> FALSE,
                                           error |-> "display"],
                           ![u].rowAtEnd =
                              RowGeometry([stored EXCEPT
                                             !.errorMessage = "display"])]
          /\ row' = [stored EXCEPT !.errorMessage = "display"]
     ELSE /\ uploads' = [uploads EXCEPT
                           ![u].pc = "done",
                           ![u].outcome = [success |-> TRUE],
                           ![u].rowAtEnd = RowGeometry(stored)]
          /\ row' = [stored EXCEPT
                       !.orientationData =
                          IF display = "shown"
                          THEN [of |-> uploads[u].file.name] ELSE null]

\* handleSTLFileUpload(rowId, file): the file name is validated, the loading
\* state is shown and processSTLFile starts reading the file.
HandleSTLFileUpload(u, file) ==
  /\ uploads[u].pc = "new"
  /\ u > 1 => uploads[u - 1].pc # "new"
  /\ IF file.ext # "stl"
     THEN /\ uploads' = [uploads EXCEPT ![u].pc = "done", ![u].file = file,
                                        ![u].outcome = [rejected |-> TRUE]]
          /\ row' = [row EXCEPT
                       !.errorMessage = "Please upload a valid STL file"]
     ELSE /\ uploads' = [uploads EXCEPT ![u].pc = "reading", ![u].file = file]
          /\ row' = [row EXCEPT !.errorMessage = NoResult]
  /\ UNCHANGED hasWorker
  /\ UNCHANGED nonSTLVars

\* readFileAsArrayBuffer resolves: file and buffer are stored on the row and
\* the geometry computation starts, in a worker where there is one.
\* construction is whether new Worker(...) throws.
FileLoaded(u, construction) ==
  /\ uploads[u].pc = "reading"
  /\ LET arrayBuffer == BufferOf(uploads[u].file)
     IN /\ row' = [row EXCEPT !.stlFile = uploads[u].file.name,
                              !.stlArrayBuffer = arrayBuffer]
        /\ uploads' =
             IF ~hasWorker
             THEN [uploads EXCEPT ![u].pc = "main",
                                  ![u].arrayBuffer = arrayBuffer,
                                  ![u].mainThreadBuffer = arrayBuffer]
             ELSE IF construction = "throws"
             THEN [uploads EXCEPT ![u].pc = "fallback",
                                  ![u].arrayBuffer = arrayBuffer,
                                  ![u].workerFailed = "construction",
                                  ![u].mainThreadBuffer = arrayBuffer]
             ELSE [uploads EXCEPT ![u].pc = "worker",
                                  ![u].arrayBuffer = arrayBuffer]
  /\ UNCHANGED hasWorker
  /\ UNCHANGED nonSTLVars

\* readFileAsArrayBuffer rejects.
FileReadFails(u) ==
  /\ uploads[u].pc = "reading"
  /\ Failed(u, "read")
  /\ UNCHANGED hasWorker
  /\ UNCHANGED nonSTLVars

\* Mutant of FallbackBuffer: the buffer stored on the row is used.
FallbackBuffer_FromRow(u) == row.stlArrayBuffer

\* The buffer processSTLFile hands to processSTLInMainThread after a worker
\* failure.
FallbackBuffer(u) == uploads[u].arrayBuffer

\* worker.onmessage: the reply of the worker arrives.
WorkerReplies(u) ==
  /\ uploads[u].pc = "worker"
  /\ LET data == WorkerOnMessage(uploads[u].arrayBuffer)
     IN IF data.success
        THEN Completed(u, [volumeCm3 |-> data.volumeCm3,
                           dimensions |-> data.dimensions])
        ELSE /\ uploads' = [uploads EXCEPT
                              ![u].pc = "fallback",
                              ![u].workerFailed = "reply",
                              ![u].mainThreadBuffer = FallbackBuffer(u)]
             /\ UNCHANGED row
  /\ UNCHANGED hasWorker
  /\ UNCHANGED nonSTLVars

\* worker.onerror: the worker raises an error event.
WorkerError(u) ==
  /\ uploads[u].pc = "worker"
  /\ uploads' = [uploads EXCEPT ![u].pc = "fallback",
                                ![u].workerFailed = "event",
                                ![u].mainThreadBuffer = FallbackBuffer(u)]
  /\ UNCHANGED row
  /\ UNCHANGED hasWorker
  /\ UNCHANGED nonSTLVars

\* processSTLInMainThread settles.
MainThreadSettles(u) ==
  /\ uploads[u].pc \in {"main", "fallback"}
  /\ LET r == processSTLInMainThread(uploads[u].mainThreadBuffer)
     IN IF r.ok THEN Completed(u, r.value) ELSE Failed(u, r.error)
  /\ UNCHANGED hasWorker
  /\ UNCHANGED nonSTLVars

NextSTL ==
  \E u \in 1..MaxUploads :
    \/ \E file \in STLFiles : HandleSTLFileUpload(u, file)
    \/ \E construction \in {"ok", "throws"} : FileLoaded(u, construction)
    \/ FileReadFails(u)
    \/ WorkerReplies(u)
    \/ WorkerError(u)
    \/ MainThreadSettles(u)

SpecSTL == InitSTL /\ [][NextSTL]_vars

\* ------------------------------------------------------------------------
\* Properties of calculateBatchArrangement
\* ------------------------------------------------------------------------
Done == pc = "done"

\* Sum of the quantities of all input rows.
TotalQuantity == SumSeq([r \in 1..Len(stlRows) |-> stlRows[r].quantity])

\* Ids of the unit items of row r.
UnitIds(r) == {<<r, i>> : i \in 0..(stlRows[r].quantity - 1)}

IdsOf(s) == {s[i].id : i \in 1..Len(s)}

Count(id, s) == Cardinality({i \in 1..Len(s) : s[i].id = id})

\* All batches that exist in the current state: the closed ones and the open
\* one.
AllBatchItems == [b \in 1..Len(batches) |-> batches[b].items] \o <<currentBatch>>

\* The footprint fits the available area of the selected bed as given.
FootprintFits(width, depth) == width <= availableWidth /\ depth <= availableDepth

\* C1: for any result, packed.length + unpacked.length equals the sum of the
\* quantities of all input rows, rows too large for the bed included.
C1_Conservation ==
  Done => Len(result.packed) + Len(result.unpacked) = TotalQuantity

\* Two placed items keep the object spacing along x or along y.
Separated(a, b) ==
  \/ a.x + a.width + OBJECT_SPACING <= b.x
  \/ b.x + b.width + OBJECT_SPACING <= a.x
  \/ a.y + a.depth + OBJECT_SPACING <= b.y
  \/ b.y + b.depth + OBJECT_SPACING <= a.y

\* The footprints of two placed items do not intersect.
FootprintsDisjoint(a, b) ==
  \/ a.x + a.width <= b.x
  \/ b.x + b.width <= a.x
  \/ a.y + a.depth <= b.y
  \/ b.y + b.depth <= a.y

\* C2: in every batch, open or closed, any two distinct placed items are
\* separated by at least the object spacing along x or along y (so their
\* footprints do not intersect), after every placement.
C2_NoOverlap ==
  \A n \in 1..Len(AllBatchItems) :
    LET b == AllBatchItems[n]
    IN \A i, j \in 1..Len(b) :
         i < j => Separated(b[i], b[j]) /\ FootprintsDisjoint(b[i], b[j])

\* A batch holding three items, rotated and unrotated ones among them.
C2_Witness ==
  /\ Len(currentBatch) >= 3
  /\ \E i, j \in 1..Len(currentBatch) :
       currentBatch[i].rotated /\ ~currentBatch[j].rotated

\* C3: a row is kept out of the placement attempts only when it is too tall
\* or its footprint exceeds the available area in both orientations, and
\* its units are then in unpacked; a row that fits after rotation is
\* attempted.
C3_PreFilter ==
  pc \in {"pack", "done"} =>
    \A r \in 1..Len(stlRows) :
      LET stlRow   == stlRows[r]
          fitsSome == /\ stlRow.height <= availableHeight
                      /\ \/ FootprintFits(stlRow.width, stlRow.depth)
                         \/ FootprintFits(stlRow.depth, stlRow.width)
      IN /\ fitsSome => UnitIds(r) \subseteq IdsOf(items)
         /\ (~fitsSome /\ Done) => UnitIds(r) \subseteq IdsOf(result.unpacked)

\* C4: every unit item that passed the pre-filter is placed in some batch;
\* no item is ever marked unpacked by the forEach loop.
C4_PreFilteredPlaced ==
  /\ lastStep.kind \notin {"rejected-empty", "overflow-unpacked"}
  /\ Done => \A i \in 1..Len(result.items) :
               \E b \in 1..Len(result.batches) :
                 result.items[i].id \in IdsOf(result.batches[b].items)

NoValidPosition(batch, width, depth) ==
  \A p \in Candidates(width, depth, availableWidth, availableDepth) :
    ~ValidPosition(batch, p[1], p[2], width, depth, OBJECT_SPACING)

\* A forEach step taken when the item has no valid position, in either
\* orientation, in a current batch that has items.
OverflowStep ==
  ( /\ pc = "pack"
    /\ idx <= Len(items)
    /\ Len(currentBatch) > 0
    /\ NoValidPosition(currentBatch, items[idx].width, items[idx].depth)
    /\ NoValidPosition(currentBatch, items[idx].depth, items[idx].width) )
  => /\ Len(batches') = Len(batches) + 1
     /\ SubSeq(batches', 1, Len(batches)) = batches
     /\ batches'[Len(batches')].items = currentBatch
     /\ idx' = idx + 1
     /\ \/ /\ Len(currentBatch') = 1
           /\ currentBatch'[1].id = items[idx].id
           /\ packed' = Append(packed, items[idx])
        \/ /\ currentBatch' = <<>>
           /\ unpacked' = Append(unpacked, items[idx])
           /\ NoValidPosition(<<>>, items[idx].width, items[idx].depth)
           /\ NoValidPosition(<<>>, items[idx].depth, items[idx].width)

\* The result of the overflow scenario.
ScenarioOutcome ==
  (Done /\ selectedPrinter = "scenario" /\ stlRows = ScenarioRows)
  => /\ Len(result.batches) = ScenarioQty
     /\ \A b \in 1..Len(result.batches) :
          /\ result.batches[b].itemCount = 1
          /\ Len(result.batches[b].items) = 1

\* C6: when an item has no valid position in a non-empty current batch, the
\* batch is closed and appended to batches, a new batch is started and the
\* same item is tried in it before the next item; ScenarioQty items of
\* 100 x 100 x 50 on the scenario bed give ScenarioQty batches of one item.
C6_Overflow == [][OverflowStep]_vars /\ []ScenarioOutcome

\* The scenario has run to its result, the last item having overflowed
\* into a batch of its own.
C6_Witness ==
  /\ Done
  /\ selectedPrinter = "scenario"
  /\ stlRows = ScenarioRows
  /\ lastStep.kind = "overflow-placed"
  /\ Len(result.packed) = ScenarioQty

\* C7: every placed item has wallMargin <= x <= availableWidth - width and
\* wallMargin <= y <= availableDepth - depth with its as-placed width and
\* depth, so its footprint is inside the bed and clear of the wall margin.
C7_WithinBed ==
  \A n \in 1..Len(AllBatchItems) :
    \A i \in 1..Len(AllBatchItems[n]) :
      LET it  == AllBatchItems[n][i]
          bed == Beds[selectedPrinter].dimensions
      IN /\ it.x \in Int /\ it.y \in Int
         /\ WALL_MARGIN <= it.x /\ it.x <= availableWidth - it.width
         /\ WALL_MARGIN <= it.y /\ it.y <= availableDepth - it.depth
         /\ availableWidth = bed.x - 2 * WALL_MARGIN
         /\ availableDepth = bed.y - 2 * WALL_MARGIN
         /\ it.x + it.width <= bed.x - WALL_MARGIN
         /\ it.y + it.depth <= bed.y - WALL_MARGIN

\* A rotated item placed away from the corner, next to an unrotated one.
C7_Witness ==
  /\ Len(currentBatch) >= 2
  /\ \E i \in 1..Len(currentBatch) :
       /\ currentBatch[i].rotated
       /\ currentBatch[i].x > WALL_MARGIN
       /\ currentBatch[i].width # currentBatch[i].depth

\* Sum of the printTime of the batches of a result.
BatchTimeSum(r) == SumSeq([b \in 1..Len(r.batches) |-> r.batches[b].printTime])

\* C8 as stated: printTime of the result is the sum, in seconds, of the
\* printTime of its batches, and batchCount is batches.length.
C8_PrintTimeIsSum ==
  Done => /\ result.printTime.kind = "number"
          /\ result.printTime.value = BatchTimeSum(result)
          /\ result.batchCount = Len(result.batches)

\* C8 amended: rawPrintTime is the sum of the batches' printTime and
\* printTime is that sum formatted as hours and whole minutes; batchCount is
\* batches.length; with no valid item batchCount is 0, printTime is the
\* number 0 and there is no rawPrintTime.
C8_RawPrintTimeIsSum ==
  Done =>
    /\ result.batchCount = Len(result.batches)
    /\ IF Len(result.items) = 0
         THEN /\ result.batchCount = 0
              /\ result.printTime = [kind |-> "number", value |-> 0]
              /\ "rawPrintTime" \notin DOMAIN result
         ELSE /\ result.rawPrintTime = BatchTimeSum(result)
              /\ result.printTime.kind = "formatted"
              /\ result.printTime.hours = BatchTimeSum(result) \div 3600
              /\ result.printTime.minutes = (BatchTimeSum(result) % 3600) \div 60
              /\ result.printTime.hours * 3600 + result.printTime.minutes * 60
                   <= BatchTimeSum(result)

\* A result of several batches whose total is not a whole number of
\* minutes.
C8_Witness ==
  /\ Done
  /\ Len(result.batches) >= 2
  /\ result.rawPrintTime % 60 # 0
  /\ result.printTime.hours > 0

\* ------------------------------------------------------------------------
\* Properties of calculatePrinterPacking
\* ------------------------------------------------------------------------
Called == packResult # NoResult

PackPrinter == SinglePrinters[packInput.printer]

\* C9: totalObjects = countX * countY * countZ and positions.length =
\* totalObjects; when fitsInPrinter is false the three counts and
\* totalObjects are 0 and positions is empty.
C9_Counts ==
  Called =>
    /\ packResult.totalObjects
         = packResult.countX * packResult.countY * packResult.countZ
    /\ Len(packResult.positions) = packResult.totalObjects
    /\ ~packResult.fitsInPrinter =>
         /\ packResult.countX = 0
         /\ packResult.countY = 0
         /\ packResult.countZ = 0
         /\ packResult.totalObjects = 0
         /\ packResult.positions = <<>>

\* A packing with several objects along each axis.
C9_Witness ==
  /\ Called
  /\ packResult.fitsInPrinter
  /\ packResult.countX >= 2
  /\ packResult.countY >= 2
  /\ packResult.countZ >= 2
  /\ Len(packResult.positions) >= 8

\* C10 as stated: for a successful packing every position's footprint plus
\* the spacing, drawn at the wall-margin offset, lies within
\* [wallMargin, printer.width - wallMargin] x
\* [wallMargin, printer.depth - wallMargin], and z + height <= printer.height.
C10_PaddedWithinBed ==
  (Called /\ packResult.fitsInPrinter) =>
    \A i \in 1..Len(packResult.positions) :
      LET pos == packResult.positions[i]
          x   == pos.x + WALL_MARGIN
          y   == pos.y + WALL_MARGIN
      IN /\ WALL_MARGIN <= x
         /\ x + packInput.width + OBJECT_SPACING
              <= PackPrinter.width - WALL_MARGIN
         /\ WALL_MARGIN <= y
         /\ y + packInput.depth + OBJECT_SPACING
              <= PackPrinter.depth - WALL_MARGIN
         /\ pos.z + packInput.height <= PackPrinter.height

\* C10 amended: every position's footprint, drawn at the wall-margin offset,
\* lies within that rectangle and z + height <= printer.height; the
\* footprint extended by the spacing exceeds the rectangle by at most the
\* spacing.
C10_FootprintWithinBed ==
  (Called /\ packResult.fitsInPrinter) =>
    \A i \in 1..Len(packResult.positions) :
      LET pos == packResult.positions[i]
          x   == pos.x + WALL_MARGIN
          y   == pos.y + WALL_MARGIN
      IN /\ WALL_MARGIN <= x
         /\ x + packInput.width <= PackPrinter.width - WALL_MARGIN
         /\ WALL_MARGIN <= y
         /\ y + packInput.depth <= PackPrinter.depth - WALL_MARGIN
         /\ pos.z + packInput.height <= PackPrinter.height
         /\ x + packInput.width + OBJECT_SPACING
              <= PackPrinter.width - WALL_MARGIN + OBJECT_SPACING
         /\ y + packInput.depth + OBJECT_SPACING
              <= PackPrinter.depth - WALL_MARGIN + OBJECT_SPACING

\* A packing of several columns and layers whose last column, extended by
\* the spacing, passes the margin line.
C10_Witness ==
  /\ Called
  /\ packResult.fitsInPrinter
  /\ packResult.countX >= 2
  /\ packResult.countZ >= 2
  /\ \E i \in 1..Len(packResult.positions) :
       packResult.positions[i].x + WALL_MARGIN + packInput.width + OBJECT_SPACING
         > PackPrinter.width - WALL_MARGIN

\* C11: calculatePrinterPacking reports "does not fit" exactly when the
\* width exceeds printer.width - 2 * WALL_MARGIN, or the depth exceeds
\* printer.depth - 2 * WALL_MARGIN, or the height exceeds printer.height; the
\* footprint turned by 90 degrees is not tried.  A 500 x 50 x 50 object on
\* Printer 400 gives fitsInPrinter = false, totalObjects = 0, positions = [].
C11_NoRotationTried ==
  Called =>
    /\ packResult.fitsInPrinter
         <=> /\ packInput.width + (2 * WALL_MARGIN) <= PackPrinter.width
             /\ packInput.depth + (2 * WALL_MARGIN) <= PackPrinter.depth
             /\ packInput.height <= PackPrinter.height
    /\ (packInput = [width |-> 500, depth |-> 50, height |-> 50,
                     printer |-> "400"]) =>
         /\ packResult.fitsInPrinter = FALSE
         /\ packResult.totalObjects = 0
         /\ packResult.positions = <<>>

\* An object reported as not fitting although its footprint turned by 90
\* degrees lies within the margins of the printer.
C11_Witness ==
  /\ Called
  /\ ~packResult.fitsInPrinter
  /\ packInput.depth + (2 * WALL_MARGIN) <= PackPrinter.width
  /\ packInput.width + (2 * WALL_MARGIN) <= PackPrinter.depth
  /\ packInput.height <= PackPrinter.height

\* n is the floor of a / b, stated without division.
IsFloorOf(n, a, b) == n * b <= a /\ a < (n + 1) * b

\* C12: when the object fits, countX = floor((availableWidth + SPACING) /
\* (width + SPACING)), countY likewise for the depth, and countZ =
\* floor(printer.height / height) with no vertical spacing; 50 x 50 x 50 on
\* Printer 400 gives 5 x 4 x 4 = 80.
C12_CountFormulas ==
  (Called /\ packResult.fitsInPrinter) =>
    /\ IsFloorOf(packResult.countX,
                 PackPrinter.width - (2 * WALL_MARGIN) + OBJECT_SPACING,
                 packInput.width + OBJECT_SPACING)
    /\ IsFloorOf(packResult.countY,
                 PackPrinter.depth - (2 * WALL_MARGIN) + OBJECT_SPACING,
                 packInput.depth + OBJECT_SPACING)
    /\ IsFloorOf(packResult.countZ, PackPrinter.height, packInput.height)
    /\ (packInput = [width |-> 50, depth |-> 50, height |-> 50,
                     printer |-> "400"]) =>
         /\ packResult.countX = 5
         /\ packResult.countY = 4
         /\ packResult.countZ = 4
         /\ packResult.totalObjects = 80

\* The 50 x 50 x 50 object has been packed on Printer 400.
C12_Witness ==
  /\ Called
  /\ packInput = [width |-> 50, depth |-> 50, height |-> 50, printer |-> "400"]
  /\ packResult.fitsInPrinter
  /\ packResult.totalObjects = 80

\* C13: the positions list is in lexicographic order with z outermost, y in
\* the middle and x innermost: the entry at index k * countY * countX +
\* j * countX + i is {x: i * (width + SPACING), y: j * (depth + SPACING),
\* z: k * height}, so the positions of layer k are contiguous.
C13_PositionOrder ==
  (Called /\ packResult.fitsInPrinter) =>
    /\ Len(packResult.positions)
         = packResult.countX * packResult.countY * packResult.countZ
    /\ \A k \in 0..(packResult.countZ - 1) :
         \A j \in 0..(packResult.countY - 1) :
           \A i \in 0..(packResult.countX - 1) :
             packResult.positions[(k * packResult.countY * packResult.countX)
                                    + (j * packResult.countX) + i + 1]
               = [x |-> i * (packInput.width + OBJECT_SPACING),
                  y |-> j * (packInput.depth + OBJECT_SPACING),
                  z |-> k * packInput.height]

\* A packing with different numbers of objects along the three axes, each
\* at least two.
C13_Witness ==
  /\ Called
  /\ packResult.fitsInPrinter
  /\ packResult.countX >= 2
  /\ packResult.countY >= 2
  /\ packResult.countZ >= 2
  /\ packResult.countX # packResult.countY
  /\ packResult.countY # packResult.countZ
  /\ packResult.countX # packResult.countZ

\* ------------------------------------------------------------------------
\* Properties of calculateCostAndPacking
\* ------------------------------------------------------------------------
CostCalled == costResult # NoResult

IsResult == CostCalled /\ costResult # null

\* The entry of one printer in the result: print time and batch cost.
PrinterEntryOk(entry, printer) ==
  IF entry.fitsInPrinter
  THEN /\ entry.printTime
            = [kind |-> "number",
               value |-> 10 * (entry.countZ * costInput.dimensions.height.n)
                           * printer.layerTime]
       /\ entry.batchCost
            = Times(FromInt(entry.totalObjects), costResult.costs.total)
  ELSE /\ entry.printTime = NotAvailable
       /\ entry.printTime # [kind |-> "number", value |-> 0]
       /\ entry.batchCost = Zero

\* C14: for each printer calculateCostAndPacking reports printTime =
\* ceil((countZ * height) / 0.1) * printer.layerTime when the object fits and
\* the sentinel 'N/A', never 0, when it does not; batchCost = totalObjects *
\* total single-item cost when it fits and 0 otherwise.
C14_PrintTimeAndBatchCost ==
  IsResult =>
    /\ PrinterEntryOk(costResult.printer400, printer400)
    /\ PrinterEntryOk(costResult.printer600, printer600)

\* An object that does not fit Printer 400 and is stacked in several layers
\* on Printer 600.
C14_Witness ==
  /\ IsResult
  /\ ~costResult.printer400.fitsInPrinter
  /\ costResult.printer600.fitsInPrinter
  /\ costResult.printer600.countZ >= 2
  /\ costResult.printer600.batchCost # Zero

NonFinite(a) == a.d = 0

\* The inputs the cost model has to refuse.
InvalidInput ==
  \/ costInput.dimensions = undefined
  \/ NonFinite(costInput.volume)
  \/ LessEq(costInput.volume, Zero)
  \/ NonFinite(costInput.dimensions.width)
  \/ NonFinite(costInput.dimensions.depth)
  \/ NonFinite(costInput.dimensions.height)
  \/ LessEq(costInput.dimensions.width, Zero)
  \/ LessEq(costInput.dimensions.depth, Zero)
  \/ LessEq(costInput.dimensions.height, Zero)

\* C15: calculateCostAndPacking returns null, with no partial result,
\* whenever the volume is <= 0, any dimension is <= 0, the volume or any
\* dimension is not finite (NaN, Infinity, -Infinity), or the dimensions are
\* missing.
C15_InvalidInputGivesNull ==
  (CostCalled /\ InvalidInput) => costResult = null

\* What the same call returns for the currency USD.
ResultForUSD ==
  calculateCostAndPacking(costInput.dimensions, costInput.volume,
                          costInput.applyGlaze, "USD").value

\* C16: for a currency code without a pricing entry calculateCostAndPacking
\* does not fail, computes with the USD prices, and reports the unsupported
\* currency to the caller (in the result or on the console) instead of
\* applying the fallback silently.
C16_FallbackReported ==
  (CostCalled /\ costInput.currency \notin DOMAIN pricing
     /\ ResultForUSD # null) =>
    /\ costResult # null
    /\ costResult.costs = ResultForUSD.costs
    /\ costLog # <<>> \/ costResult # ResultForUSD

\* The total cost of the same call with another volume.
TotalFor(volume) ==
  calculateCostAndPacking(costInput.dimensions, volume, costInput.applyGlaze,
                          costInput.currency).value.costs.total

ScaleFactors == {FromInt(2), FromInt(3), Num(3, 2)}

\* A result for a finite volume.
FiniteCall == IsResult /\ ~NonFinite(costInput.volume)

\* The cost of the fixed part of the glaze usage.
GlazeIntercept ==
  Times(Num(3176, 100), currencyPricing(costInput.currency).glaze)

\* C17 as stated: for fixed dimensions, currency and glaze flag, on or off,
\* total(k * V) = k * total(V) for every positive V and k.
C17_TotalLinear ==
  FiniteCall =>
    \A k \in ScaleFactors :
      TotalFor(Times(k, costInput.volume)) = Times(k, costResult.costs.total)

\* C17 amended: with the glaze off total(k * V) = k * total(V); with the
\* glaze on the total is the linear part plus the cost of the fixed 31.76 g
\* of glaze, so k * total(V) = total(k * V) + (k - 1) * 31.76 * glaze price.
C17_TotalAffineWithGlaze ==
  FiniteCall =>
    \A k \in ScaleFactors :
      IF costInput.applyGlaze
      THEN Times(k, costResult.costs.total)
             = Plus(TotalFor(Times(k, costInput.volume)),
                    Times(Plus(k, FromInt(-1)), GlazeIntercept))
      ELSE TotalFor(Times(k, costInput.volume))
             = Times(k, costResult.costs.total)

\* A cost computed with the glaze on, for a volume that is not a whole
\* number.
C17_Witness ==
  /\ FiniteCall
  /\ costInput.applyGlaze
  /\ costInput.volume.d > 1
  /\ costResult.costs.glaze # Zero

\* ------------------------------------------------------------------------
\* Properties of the orientation of a loaded model
\* ------------------------------------------------------------------------
Loaded == orientationData # NoResult

\* The raw edge lengths in the order given: x, y, z.
RawTriple ==
  <<FromInt(originalSize.x), FromInt(originalSize.y), FromInt(originalSize.z)>>

\* The longest raw edge does not exceed the height of the tallest printer.
FitsTallest ==
  \A i \in 1..3 : LessEq(RawTriple[i], FromInt(printer600.height))

\* The layout assigns the three raw edge lengths to width, depth, height.
IsArrangement(layout) ==
  \E p \in Permutations({1, 2, 3}) :
    /\ layout.width = RawTriple[p[1]]
    /\ layout.depth = RawTriple[p[2]]
    /\ layout.height = RawTriple[p[3]]

SameDims(a, b) ==
  a.width = b.width /\ a.depth = b.depth /\ a.height = b.height

\* C18: for raw edges with sorted magnitudes s <= m <= l, l not above the
\* tallest printer height, the flat layout is {width: l, depth: m, height: s}
\* and the vertical one {width: s, depth: m, height: l}, whatever axis each
\* was given on; determineOptimalOrientation and
\* updatePackingWithOrientation agree on both.
C18_OrientationResolution ==
  (Loaded /\ FitsTallest) =>
    /\ IsArrangement(orientationData.flat)
    /\ LessEq(orientationData.flat.height, orientationData.flat.depth)
    /\ LessEq(orientationData.flat.depth, orientationData.flat.width)
    /\ IsArrangement(orientationData.vertical)
    /\ LessEq(orientationData.vertical.width, orientationData.vertical.depth)
    /\ LessEq(orientationData.vertical.depth, orientationData.vertical.height)
    /\ orientedDims # NoResult =>
         SameDims(orientedDims.dims,
                  IF orientedDims.orientation = "vertical"
                  THEN orientationData.vertical ELSE orientationData.flat)

\* Both functions have resolved a model whose longest edge was given on y
\* and whose shortest edge was given on z.
C18_Witness ==
  /\ Loaded
  /\ FitsTallest
  /\ orientedDims # NoResult
  /\ orientedDims.orientation = "vertical"
  /\ originalSize.z < originalSize.x
  /\ originalSize.x < originalSize.y

\* The orientation data computed from the raw dimensions.
ComputedOnce ==
  determineOptimalOrientation(RawTriple[1], RawTriple[2], RawTriple[3])

\* C19: after any sequence of changeOrientation('flat' | 'vertical') on a
\* loaded model the active width, depth, height and printTime are those of
\* the flat or vertical layout computed once from the raw dimensions and
\* depend only on the orientation requested last; the stored flat and
\* vertical layouts never change.
C19_SwitchesKeepLayouts ==
  (Loaded /\ requested # <<>>) =>
    LET last   == requested[Len(requested)]
        layout == IF last = "vertical" THEN ComputedOnce.vertical
                  ELSE ComputedOnce.flat
    IN /\ orientationData.flat = ComputedOnce.flat
       /\ orientationData.vertical = ComputedOnce.vertical
       /\ orientationData.type = last
       /\ orientationData.width = layout.width
       /\ orientationData.depth = layout.depth
       /\ orientationData.height = layout.height
       /\ orientationData.printTime = layout.printTime

\* The model was switched to vertical, back to flat and to vertical again,
\* the two layouts having different print times.
C19_Witness ==
  /\ Loaded
  /\ requested = <<"vertical", "flat", "vertical">>
  /\ orientationData.flat.printTime # orientationData.vertical.printTime
  /\ orientationData.type = "vertical"

\* ------------------------------------------------------------------------
\* Properties of the STL upload
\* ------------------------------------------------------------------------
\* C20: whenever the worker path fails (error event, reply with success:
\* false, or the Worker constructor throwing) processSTLFile runs the
\* main-thread computation on the same buffer; the upload then ends either
\* with that computation's volume and dimensions stored on the row or with
\* a reported failure, never with a success that stored no geometry data.
C20_WorkerFailureFallsBack ==
  \A u \in 1..MaxUploads :
    LET up == uploads[u]
    IN up.workerFailed # "no" =>
         /\ up.pc \in {"fallback", "done"}
         /\ up.mainThreadBuffer = BufferOf(up.file)
         /\ up.pc = "done" =>
              IF up.outcome.success
              THEN /\ processSTLInMainThread(BufferOf(up.file)).ok
                   /\ up.rowAtEnd.volumeCm3
                        = processSTLInMainThread(BufferOf(up.file)).value.volumeCm3
                   /\ up.rowAtEnd.dimensions
                        = processSTLInMainThread(BufferOf(up.file)).value.dimensions
                   /\ ~isNaN(up.rowAtEnd.volumeCm3)
                   /\ up.rowAtEnd.dimensions # undefined
              ELSE up.rowAtEnd.errorMessage = up.outcome.error

\* One upload whose worker raised an error event ended with the geometry of
\* its file stored; another whose worker replied success: false ended with
\* a reported failure.
C20_Witness ==
  \E u1, u2 \in 1..MaxUploads :
    /\ uploads[u1].pc = "done"
    /\ uploads[u1].workerFailed = "event"
    /\ uploads[u1].outcome.success
    /\ uploads[u1].rowAtEnd.volumeCm3 = FromInt(1)
    /\ uploads[u2].pc = "done"
    /\ uploads[u2].workerFailed = "reply"
    /\ ~uploads[u2].outcome.success

\* The steps of an upload during which its buffer is being parsed.
Parsing == {"worker", "fallback", "main"}

\* The volume and dimensions of a file's mesh, as either computation yields
\* them for a well-formed file.
GeometryOf(file) == processSTLInMainThread(BufferOf(file)).value

\* The row holds the file, the volume and the dimensions of upload u.
RowHolds(u) ==
  /\ row.stlFile = uploads[u].file.name
  /\ row.volumeCm3 = GeometryOf(uploads[u].file).volumeCm3
  /\ row.dimensions.width = GeometryOf(uploads[u].file).dimensions.width
  /\ row.dimensions.depth = GeometryOf(uploads[u].file).dimensions.depth
  /\ row.dimensions.height = GeometryOf(uploads[u].file).dimensions.height

\* The newer upload u2 began and finished successfully while the older
\* upload u1 was in flight, u1 is still being parsed, and the row holds the
\* file and the geometry of u2.  The record of u1 does not depend on u2, so
\* every such state is also reached by starting u2 during the parse of u1.
Superseded(u1, u2) ==
  /\ u1 < u2
  /\ uploads[u1].pc \in Parsing
  /\ uploads[u2].pc = "done"
  /\ uploads[u2].outcome = [success |-> TRUE]
  /\ \A w \in (u2 + 1)..MaxUploads : uploads[w].pc = "new"
  /\ RowHolds(u2)

\* The row after RowHolds(u), in the next state.
RowHoldsNext(u) ==
  /\ row'.stlFile = uploads[u].file.name
  /\ row'.volumeCm3 = GeometryOf(uploads[u].file).volumeCm3
  /\ row'.dimensions.width = GeometryOf(uploads[u].file).dimensions.width
  /\ row'.dimensions.depth = GeometryOf(uploads[u].file).dimensions.depth
  /\ row'.dimensions.height = GeometryOf(uploads[u].file).dimensions.height

\* C21: when a second upload starts while the first is being parsed and
\* its parse completes first, the row still holds the file, the volume and
\* the dimensions of the second upload once the first parse has finished
\* too: the result of the superseded parse is discarded.
C21_NewerUploadWins ==
  [][\A u1, u2 \in 1..MaxUploads :
       (Superseded(u1, u2) /\ uploads'[u1].pc = "done") => RowHoldsNext(u2)]_vars

\* ------------------------------------------------------------------------
\* Properties of the two mesh computations
\* ------------------------------------------------------------------------
\* Both computations have settled for the buffer.
Analysed == workerReply # NoResult /\ mainThreadResult # NoResult

\* C22: for every buffer, a mesh of zero triangles included, the worker and
\* the main-thread computation yield the same volume and the same width,
\* depth and height, or both fail.
C22_PathsAgree ==
  Analysed =>
    IF workerReply.success
    THEN /\ mainThreadResult.ok
         /\ mainThreadResult.value.volumeCm3 = workerReply.volumeCm3
         /\ mainThreadResult.value.dimensions.width
              = workerReply.dimensions.width
         /\ mainThreadResult.value.dimensions.depth
              = workerReply.dimensions.depth
         /\ mainThreadResult.value.dimensions.height
              = workerReply.dimensions.height
    ELSE ~mainThreadResult.ok

\* C23: both computations fail whenever the buffer is shorter than
\* 84 + 50 * N bytes for the declared triangle count N (a buffer too short
\* to hold N included) or N exceeds the triangle limit, and a complete
\* buffer declaring exactly the limit is accepted by both.
C23_ShortOrOversizedFails ==
  Analysed =>
    /\ ( \/ meshBuffer.byteLength < HeaderBytes
         \/ meshBuffer.byteLength
              < HeaderBytes + (RecordBytes * meshBuffer.declared)
         \/ meshBuffer.declared > TriangleLimit )
       => ~workerReply.success /\ ~mainThreadResult.ok
    /\ ( /\ meshBuffer.declared = TriangleLimit
         /\ meshBuffer.byteLength
              >= HeaderBytes + (RecordBytes * meshBuffer.declared) )
       => workerReply.success /\ mainThreadResult.ok

\* ------------------------------------------------------------------------
\* Properties of placeItem and findPositionForItem
\* ------------------------------------------------------------------------
\* The last forEach iteration placed its item, in the batch that was open
\* or in the new one.
JustPlaced == pc = "pack" /\ lastStep.kind \in {"placed", "overflow-placed"}

\* The item of the last iteration, the entry placeItem pushed for it and
\* the batch it was placed against.
LastItem == items[idx - 1]

LastEntry == currentBatch[Len(currentBatch)]

BatchBefore == SubSeq(currentBatch, 1, Len(currentBatch) - 1)

\* The valid positions of a footprint in a batch: inside the margins and
\* clear of every placed item by the spacing.
ValidIn(batch, width, depth, maxWidth, maxDepth, spacing) ==
  {p \in (WALL_MARGIN..(maxWidth - width))
           \X (WALL_MARGIN..(maxDepth - depth)) :
     \A i \in 1..Len(batch) :
       \/ p[1] + width + spacing <= batch[i].x
       \/ batch[i].x + batch[i].width + spacing <= p[1]
       \/ p[2] + depth + spacing <= batch[i].y
       \/ batch[i].y + batch[i].depth + spacing <= p[2]}

ValidPositions(batch, width, depth) ==
  ValidIn(batch, width, depth, availableWidth, availableDepth, OBJECT_SPACING)

\* The smallest x + y over a non-empty set of positions.
MinSum(S) == SetMin({p[1] + p[2] : p \in S})

\* C24: with a valid position for both footprints placeItem uses the one
\* whose position has the smaller x + y, the unrotated one on a tie; with a
\* valid position for one footprint only it uses that one; rotated is true
\* exactly when the rotated footprint was used, and width and depth of the
\* entry are swapped exactly then.
C24_OrientationChoice ==
  JustPlaced =>
    LET regular == ValidPositions(BatchBefore, LastItem.width, LastItem.depth)
        rotated == ValidPositions(BatchBefore, LastItem.depth, LastItem.width)
        e == LastEntry
    IN /\ e.rotated =
            IF regular # {} /\ rotated # {}
            THEN MinSum(rotated) < MinSum(regular)
            ELSE rotated # {}
       /\ <<e.x, e.y>> \in (IF e.rotated THEN rotated ELSE regular)
       /\ e.x + e.y = MinSum(IF e.rotated THEN rotated ELSE regular)
       /\ e.width = (IF e.rotated THEN LastItem.depth ELSE LastItem.width)
       /\ e.depth = (IF e.rotated THEN LastItem.width ELSE LastItem.depth)

\* One batch holds an item placed unrotated on a tie, one placed rotated
\* because the rotated footprint came closer to the corner, and one placed
\* rotated because only the rotated footprint had a valid position.
C24_Witness ==
  /\ JustPlaced
  /\ Len(currentBatch) = 3
  /\ ~currentBatch[1].rotated
  /\ currentBatch[1].width # currentBatch[1].depth
  /\ currentBatch[2].rotated
  /\ ValidPositions(SubSeq(currentBatch, 1, 1), currentBatch[2].depth,
                    currentBatch[2].width) # {}
  /\ currentBatch[3].rotated
  /\ ValidPositions(BatchBefore, LastItem.width, LastItem.depth) = {}

\* findPositionForItem has returned.
FindCalled == findResult # NoResult

\* The valid positions for the call made.
FindValid ==
  ValidIn(findInput.currentBatch, findInput.width, findInput.depth,
          findInput.maxWidth, findInput.maxDepth, findInput.spacing)

\* C25: findPositionForItem returns no position exactly when no candidate
\* is valid; otherwise it returns a valid position of minimal x + y, the
\* first such in scan order (x outer, y inner, so the one of smallest x),
\* and the early return at (wallMargin, wallMargin) yields what the
\* exhaustive scan yields.
C25_MinimalPosition ==
  FindCalled =>
    /\ findResult.found <=> FindValid # {}
    /\ findResult.found =>
         /\ <<findResult.x, findResult.y>> \in FindValid
         /\ findResult.wastedSpace = findResult.x + findResult.y
         /\ \A q \in FindValid :
              /\ findResult.x + findResult.y <= q[1] + q[2]
              /\ findResult.x + findResult.y = q[1] + q[2]
                   => findResult.x <= q[1]
    /\ findResult = ExhaustiveFit(findInput.currentBatch, findInput.width,
                                  findInput.depth, findInput.maxWidth,
                                  findInput.maxDepth, findInput.spacing)

\* A call answered away from the corner although another valid position
\* has the same x + y.
C25_Witness ==
  /\ FindCalled
  /\ findResult.found
  /\ findResult.x = WALL_MARGIN
  /\ findResult.y > WALL_MARGIN
  /\ \E q \in FindValid :
       /\ q[1] > findResult.x
       /\ q[1] + q[2] = findResult.x + findResult.y

\* ------------------------------------------------------------------------
\* Properties of the batches
\* ------------------------------------------------------------------------
\* The heights z + height of the items of a batch record.
TopsOf(b) == {b.items[i].z + b.items[i].height : i \in 1..Len(b.items)}

\* C26: every recorded batch has maxHeight = max over its items of
\* z + height and printTime = ceil(maxHeight / 0.1) * layerTime of the
\* selected printer; the batch open after the last item is recorded by the
\* same rule, so every placed item of the result is in a recorded batch.
C26_BatchRecords ==
  /\ \A n \in 1..Len(batches) :
       /\ batches[n].maxHeight \in TopsOf(batches[n])
       /\ \A t \in TopsOf(batches[n]) : t <= batches[n].maxHeight
       /\ batches[n].printTime
            = LayerCount(batches[n].maxHeight) * Beds[selectedPrinter].layerTime
  /\ Done =>
       /\ result.batches = batches
       /\ currentBatch # <<>> =>
            result.batches[Len(result.batches)].items = currentBatch
       /\ \A i \in 1..Len(result.packed) :
            \E n \in 1..Len(result.batches) :
              result.packed[i].id \in IdsOf(result.batches[n].items)

\* A result of two batches: the first holds items of different heights, the
\* tallest not last; the second was open when the loop ended.
C26_Witness ==
  /\ Done
  /\ Len(result.batches) = 2
  /\ currentBatch # <<>>
  /\ LET first == result.batches[1]
     IN first.items[Len(first.items)].height < first.maxHeight

\* C27: the items are attempted in the order of the sorted list, which is
\* non-increasing in height and holds the expanded unit items: no item is
\* attempted before a strictly taller one.
C27_TallestFirst ==
  pc \in {"pack", "done"} =>
    /\ \A i, j \in 1..Len(items) :
         i < j => items[i].height >= items[j].height
    /\ IdsOf(items) = IdsOf(CollectItems(1))
    /\ Len(items) = Len(CollectItems(1))
    /\ idx > 1 => lastStep.id = items[idx - 1].id
    /\ IdsOf(packed) \cup IdsOf(unpacked) = IdsOf(SubSeq(items, 1, idx - 1))
    /\ \A i \in 1..(idx - 1) : \A j \in idx..Len(items) :
         items[i].height >= items[j].height

\* The shorter row was entered first, and all items of both rows were
\* attempted.
C27_Witness ==
  /\ pc = "pack"
  /\ idx > Len(items)
  /\ Len(stlRows) = 2
  /\ stlRows[1].height < stlRows[2].height
  /\ Len(items) >= 3
  /\ items[1].id[1] = 2

\* C28: every placed item has z = 0; the maxHeight of a batch is the height
\* of the first item placed in it; maxHeight and printTime do not increase
\* from one batch of the result to the next.
C28_FirstItemIsTallest ==
  /\ \A i \in 1..Len(currentBatch) : currentBatch[i].z = 0
  /\ \A n \in 1..Len(batches) :
       /\ \A i \in 1..Len(batches[n].items) : batches[n].items[i].z = 0
       /\ batches[n].maxHeight = batches[n].items[1].height
  /\ \A m, n \in 1..Len(batches) :
       m < n => /\ batches[m].maxHeight >= batches[n].maxHeight
                /\ batches[m].printTime >= batches[n].printTime
  /\ Done => result.batches = batches

\* A result whose batches differ in maxHeight and whose first batch holds
\* items of different heights.
C28_Witness ==
  /\ Done
  /\ Len(result.batches) >= 2
  /\ result.batches[1].maxHeight > result.batches[Len(result.batches)].maxHeight
  /\ \E i \in 1..Len(result.batches[1].items) :
       result.batches[1].items[i].height < result.batches[1].maxHeight

\* The ids of the items of the batches n, n + 1, ... in order.
RECURSIVE BatchIdsFrom(_)
BatchIdsFrom(n) ==
  IF n > Len(batches) THEN <<>>
  ELSE [i \in 1..Len(batches[n].items) |-> batches[n].items[i].id]
       \o BatchIdsFrom(n + 1)

\* C29: packing is next-fit.  The placed items, in the order they were
\* attempted, are the items of the first batch, then those of the second,
\* and so on, the open batch last: an item only ever goes to the batch open
\* at its turn and a closed batch receives nothing more.  No recorded batch
\* is empty.
C29_NextFit ==
  pc \in {"pack", "done"} =>
    /\ [i \in 1..Len(packed) |-> packed[i].id]
         = IF Done THEN BatchIdsFrom(1)
           ELSE BatchIdsFrom(1)
                  \o [i \in 1..Len(currentBatch) |-> currentBatch[i].id]
    /\ \A n \in 1..Len(batches) :
         batches[n].itemCount >= 1 /\ Len(batches[n].items) >= 1
    /\ Done => result.batches = batches /\ result.batchCount = Len(batches)

\* The last item opened a third batch although the first batch, closed
\* earlier, has a valid position for it.
C29_Witness ==
  /\ Done
  /\ Len(result.batches) = 3
  /\ lastStep.kind = "overflow-placed"
  /\ ValidPositions(result.batches[1].items, items[Len(items)].width,
                    items[Len(items)].depth) # {}
  /\ Len(result.batches[3].items) = 1

====
